---- MODULE Spec2Model ----
(***************************************************************************)
(* A model of the content-based image retrieval programs:                  *)
(*   extraction : compute_features, compute_histo_features,                *)
(*                compute_featuresmulti, compute_featurescolorandtexture   *)
(*   matching   : find_matches, find_matcheshisto, find_matchesmulti,      *)
(*                find_matchescolortexture, findmatcheswithdeepnetwork,    *)
(*                custom_design                                            *)
(*                                                                         *)
(* Four specifications share the module:                                   *)
(*   Spec        one run of a matcher program                              *)
(*   SpecExtract one run of an extraction program over a directory         *)
(*   SpecPatch   one call of computeBaselineFeatureVector                  *)
(*   SpecCall    one call of one of the other functions                    *)
(*                                                                         *)
(* Conventions.  In the runs of the programs a float is an exact extended  *)
(* rational <<n, d>> (d > 0 a finite value in lowest terms, <<1,0>> /      *)
(* <<-1,0>> the infinities and <<0,0>> NaN).  In SpecCall the functions    *)
(* whose results depend on rounding are evaluated in IEEE binary32.  A     *)
(* string is a sequence of character codes.  An image is a descriptor from *)
(* which every pixel is computed (PixelAt); the empty Mat of a failed      *)
(* imread has 0 rows.                                                      *)
(***************************************************************************)
EXTENDS Integers, Sequences, FiniteSets, TLC

(***************************************************************************)
(* Bounds of the model.                                                    *)
(***************************************************************************)
\* largest image side handed to computeBaselineFeatureVector in SpecPatch
MaxDim == 9
\* largest number of rows of a store file
MaxRows == 2
\* largest number of directory entries of an extraction pass
MaxEntries == 2

(***************************************************************************)
(* Integer helpers.                                                        *)
(***************************************************************************)
Abs(i) == IF i < 0 THEN -i ELSE i

Sign(i) == IF i < 0 THEN -1 ELSE IF i > 0 THEN 1 ELSE 0

MinInt(a, b) == IF b < a THEN b ELSE a

RECURSIVE Gcd(_, _)
Gcd(a, b) == IF b = 0 THEN a ELSE Gcd(b, a % b)

\* floor of the square root; exact on the perfect squares the inputs use
ISqrt(n) == CHOOSE r \in 0..n : r * r <= n /\ (r + 1) * (r + 1) > n

\* the sum f[lo] + ... + f[hi] of integers (a loop accumulating in index
\* order; exact arithmetic makes the grouping irrelevant)
RECURSIVE SumInt(_, _, _)
SumInt(f, lo, hi) ==
    IF lo > hi THEN 0
    ELSE IF lo = hi THEN f[lo]
    ELSE LET mid == (lo + hi) \div 2
         IN  SumInt(f, lo, mid) + SumInt(f, mid + 1, hi)

(***************************************************************************)
(* Floats as extended rationals.                                           *)
(***************************************************************************)
NaN == <<0, 0>>

Norm(n, d) ==
    IF d = 0 THEN <<Sign(n), 0>>
    ELSE LET g == Gcd(Abs(n), Abs(d))
         IN  <<Sign(d) * (n \div g), Abs(d) \div g>>

F(i) == <<i, 1>>

IsNaN(x) == x = NaN

IsFinite(x) == x[2] > 0

FAdd(x, y) ==
    IF IsFinite(x) /\ IsFinite(y)
    THEN LET g == Gcd(x[2], y[2])
         IN  Norm(x[1] * (y[2] \div g) + y[1] * (x[2] \div g), (x[2] \div g) * y[2])
    ELSE IF IsNaN(x) \/ IsNaN(y) THEN NaN
    ELSE IF IsFinite(x) THEN y
    ELSE IF IsFinite(y) THEN x
    ELSE IF x = y THEN x ELSE NaN

FNeg(x) == <<-x[1], x[2]>>

FSub(x, y) == FAdd(x, FNeg(y))

FMul(x, y) ==
    IF IsFinite(x) /\ IsFinite(y) /\ x[1] # 0 /\ y[1] # 0
    THEN LET g == Gcd(Abs(x[1]), y[2])
             h == Gcd(Abs(y[1]), x[2])
         IN  Norm((x[1] \div g) * (y[1] \div h), (x[2] \div h) * (y[2] \div g))
    ELSE Norm(x[1] * y[1], x[2] * y[2])

FInv(x) == IF x[1] < 0 THEN <<-x[2], -x[1]>> ELSE IF x[1] > 0 THEN <<x[2], x[1]>>
           ELSE IF x[2] > 0 THEN <<1, 0>> ELSE NaN

FDiv(x, y) == FMul(x, FInv(y))

\* operator< of float: false as soon as one side is NaN
FLess(x, y) ==
    IF IsNaN(x) \/ IsNaN(y) THEN FALSE
    ELSE IF IsFinite(x) /\ IsFinite(y) THEN x[1] * y[2] < y[1] * x[2]
    ELSE IF IsFinite(x) THEN y[1] > 0
    ELSE IF IsFinite(y) THEN x[1] < 0
    ELSE x[1] < y[1]

\* operator== of float: NaN equals nothing
FEq(x, y) == ~IsNaN(x) /\ ~IsNaN(y) /\ x = y

\* std::min(a, b) == (b < a) ? b : a
FMin(a, b) == IF FLess(b, a) THEN b ELSE a

\* sqrt of a float whose numerator and denominator are perfect squares
FSqrt(x) == IF IsNaN(x) \/ x[1] < 0 THEN NaN
            ELSE IF ~IsFinite(x) THEN x
            ELSE <<ISqrt(x[1]), ISqrt(x[2])>>

\* the sum f[lo] + ... + f[hi] of floats
RECURSIVE SumF(_, _, _)
SumF(f, lo, hi) ==
    IF lo > hi THEN F(0)
    ELSE IF lo = hi THEN f[lo]
    ELSE LET mid == (lo + hi) \div 2
         IN  FAdd(SumF(f, lo, mid), SumF(f, mid + 1, hi))

(***************************************************************************)
(* IEEE binary32 (the type float of the build).                            *)
(* The functions whose results depend on rounding are also evaluated in    *)
(* binary32: a value is <<s, m, e>> and stands for s * m * 2^e with        *)
(* s = 1 or -1 and 2^23 <= m < 2^24; <<1, 0, 0>> is zero, <<s, -1, 0>> an   *)
(* infinity and <<0, 0, 0>> NaN.  Every operation rounds to nearest, ties  *)
(* to even.  Exponents stay far inside the range of the format for the     *)
(* inputs used, so overflow and subnormals are not modelled, and the sign  *)
(* of zero is not kept.                                                    *)
(***************************************************************************)
\* the number of digits of the significand
MantissaBits == 24

B32Zero == <<1, 0, 0>>

B32NaN == <<0, 0, 0>>

B32Inf(s) == <<s, -1, 0>>

B32IsNaN(x) == x[1] = 0

B32IsInf(x) == x[2] = -1

B32IsZero(x) == x[1] # 0 /\ x[2] = 0

\* the number of binary digits of n >= 0
RECURSIVE BitLen(_)
BitLen(n) == IF n = 0 THEN 0 ELSE 1 + BitLen(n \div 2)

\* the float nearest to s * (n + f) * 2^e, where 0 <= f < 1 and f # 0 iff
\* sticky: n is cut to 24 digits and rounded on what was cut
RoundPack(s, n, e, sticky) ==
    IF n = 0 THEN B32Zero
    ELSE LET len == BitLen(n)
         IN  IF len <= MantissaBits
             THEN <<s, n * 2^(MantissaBits - len), e - (MantissaBits - len)>>
             ELSE LET sh == len - MantissaBits
                      q == n \div 2^sh
                      r == n % 2^sh
                      half == 2^(sh - 1)
                      up == r > half \/ (r = half /\ (sticky \/ q % 2 = 1))
                      m == IF up THEN q + 1 ELSE q
                  IN  IF m = 2^MantissaBits
                      THEN <<s, 2^(MantissaBits - 1), e + sh + 1>>
                      ELSE <<s, m, e + sh>>

\* the float of an int (exact below 2^24)
B32FromInt(n) == RoundPack(IF n < 0 THEN -1 ELSE 1, IF n < 0 THEN -n ELSE n, 0, FALSE)

B32Neg(x) == <<-x[1], x[2], x[3]>>

\* x * y: the 48-digit product of the significands is formed from their
\* 12-digit halves and rounded
B32Mul(x, y) ==
    IF B32IsNaN(x) \/ B32IsNaN(y) THEN B32NaN
    ELSE IF B32IsInf(x) \/ B32IsInf(y)
    THEN (IF B32IsZero(x) \/ B32IsZero(y) THEN B32NaN ELSE B32Inf(x[1] * y[1]))
    ELSE IF B32IsZero(x) \/ B32IsZero(y) THEN B32Zero
    ELSE LET a1 == x[2] \div 4096
             b1 == x[2] % 4096
             a2 == y[2] \div 4096
             b2 == y[2] % 4096
             mid == a1 * b2 + a2 * b1
             t == (mid % 4096) * 4096 + b1 * b2
             lo == t % 2^24
             hi == a1 * a2 + (mid \div 4096) + (t \div 2^24)
         IN  RoundPack(x[1] * y[1], hi * 64 + (lo \div 2^18), x[3] + y[3] + 18,
                       lo % 2^18 # 0)

\* x + y: the smaller operand is shifted under three guard digits
B32Add(x, y) ==
    IF B32IsNaN(x) \/ B32IsNaN(y) THEN B32NaN
    ELSE IF B32IsInf(x) THEN (IF B32IsInf(y) /\ x[1] # y[1] THEN B32NaN ELSE x)
    ELSE IF B32IsInf(y) THEN y
    ELSE IF B32IsZero(x) THEN y
    ELSE IF B32IsZero(y) THEN x
    ELSE LET swap == x[3] < y[3] \/ (x[3] = y[3] /\ x[2] < y[2])
             big == IF swap THEN y ELSE x
             small == IF swap THEN x ELSE y
             d == big[3] - small[3]
             m1 == big[2] * 8
             m2 == IF d >= 31 THEN 0 ELSE (small[2] * 8) \div 2^d
             lost == IF d >= 31 THEN TRUE ELSE (small[2] * 8) % 2^d # 0
         IN  IF big[1] = small[1] THEN RoundPack(big[1], m1 + m2, big[3] - 3, lost)
             ELSE IF lost THEN RoundPack(big[1], m1 - m2 - 1, big[3] - 3, TRUE)
             ELSE RoundPack(big[1], m1 - m2, big[3] - 3, FALSE)

B32Sub(x, y) == B32Add(x, B32Neg(y))

\* RoundPack rounding to odd: the 24 digits kept are made odd when anything
\* was cut
RoundPackOdd(s, n, e, sticky) ==
    IF n = 0 THEN B32Zero
    ELSE LET len == BitLen(n)
         IN  IF len <= MantissaBits
             THEN <<s, n * 2^(MantissaBits - len), e - (MantissaBits - len)>>
             ELSE LET sh == len - MantissaBits
                      q == n \div 2^sh
                      cut == n % 2^sh # 0 \/ sticky
                  IN  <<s, IF cut /\ q % 2 = 0 THEN q + 1 ELSE q, e + sh>>

\* x + y of finite x and y, rounded to odd
B32AddOdd(x, y) ==
    IF B32IsZero(x) THEN y
    ELSE IF B32IsZero(y) THEN x
    ELSE LET swap == x[3] < y[3] \/ (x[3] = y[3] /\ x[2] < y[2])
             big == IF swap THEN y ELSE x
             small == IF swap THEN x ELSE y
             d == big[3] - small[3]
             m1 == big[2] * 8
             m2 == IF d >= 31 THEN 0 ELSE (small[2] * 8) \div 2^d
             lost == IF d >= 31 THEN TRUE ELSE (small[2] * 8) % 2^d # 0
         IN  IF big[1] = small[1] THEN RoundPackOdd(big[1], m1 + m2, big[3] - 3, lost)
             ELSE IF lost THEN RoundPackOdd(big[1], m1 - m2 - 1, big[3] - 3, TRUE)
             ELSE RoundPackOdd(big[1], m1 - m2, big[3] - 3, FALSE)

\* the exact product of finite non-zero x and y minus B32Mul(x, y): a float
B32MulErr(x, y) ==
    LET a1 == x[2] \div 4096
        b1 == x[2] % 4096
        a2 == y[2] \div 4096
        b2 == y[2] % 4096
        mid == a1 * b2 + a2 * b1
        t == (mid % 4096) * 4096 + b1 * b2
        lo == t % 2^24
        hi == a1 * a2 + (mid \div 4096) + (t \div 2^24)
        e == x[3] + y[3]
        uh == B32Mul(x, y)
        k == uh[3] - e
        uhHi == IF k >= 24 THEN uh[2] * 2^(k - 24) ELSE uh[2] \div 2^(24 - k)
        uhLo == IF k >= 24 THEN 0 ELSE (uh[2] % 2^(24 - k)) * 2^k
        diff == (hi - uhHi) * 2^24 + (lo - uhLo)
        s == x[1] * y[1]
    IN  RoundPack(IF diff >= 0 THEN s ELSE -s, IF diff >= 0 THEN diff ELSE -diff, e, FALSE)

\* the exact sum of finite a and b minus B32Add(a, b): a float
B32AddErr(a, b) ==
    LET s == B32Add(a, b)
        a1 == B32Sub(s, b)
        b1 == B32Sub(s, a1)
    IN  B32Add(B32Sub(a, a1), B32Sub(b, b1))

\* fmaf(x, y, z): x * y + z rounded once.  The product is split in
\* B32Mul(x, y) and its error; the three terms are added with the small ones
\* rounded to odd, which makes the last rounding that of the exact sum
B32Fma(x, y, z) ==
    IF B32IsNaN(x) \/ B32IsNaN(y) \/ B32IsNaN(z) THEN B32NaN
    ELSE IF B32IsInf(x) \/ B32IsInf(y) \/ B32IsInf(z) THEN B32Add(B32Mul(x, y), z)
    ELSE IF B32IsZero(x) \/ B32IsZero(y) THEN z
    ELSE IF B32IsZero(z) THEN B32Mul(x, y)
    ELSE LET uh == B32Mul(x, y)
             th == B32Add(z, uh)
         IN  B32Add(th, B32AddOdd(B32AddErr(z, uh), B32MulErr(x, y)))

\* k more digits of the quotient of r by m, after the digits q
RECURSIVE DivBits(_, _, _, _)
DivBits(r, m, k, q) ==
    IF k = 0 THEN <<q, r>>
    ELSE IF 2 * r >= m THEN DivBits(2 * r - m, m, k - 1, 2 * q + 1)
    ELSE DivBits(2 * r, m, k - 1, 2 * q)

\* x / y
B32Div(x, y) ==
    IF B32IsNaN(x) \/ B32IsNaN(y) THEN B32NaN
    ELSE IF B32IsInf(x) THEN (IF B32IsInf(y) THEN B32NaN ELSE B32Inf(x[1] * y[1]))
    ELSE IF B32IsInf(y) THEN B32Zero
    ELSE IF B32IsZero(y) THEN (IF B32IsZero(x) THEN B32NaN ELSE B32Inf(x[1] * y[1]))
    ELSE IF B32IsZero(x) THEN B32Zero
    ELSE LET q0 == IF x[2] >= y[2] THEN 1 ELSE 0
             qr == DivBits(x[2] - q0 * y[2], y[2], 25, q0)
         IN  RoundPack(x[1] * y[1], qr[1], x[3] - y[3] - 25, qr[2] # 0)

\* the digits of the square root of m * 4^13, two digits of m at a time
RECURSIVE SqrtBits(_, _, _, _)
SqrtBits(m, i, rem, root) ==
    IF i < 0 THEN <<root, rem>>
    ELSE LET pair == IF i >= 13 THEN (m \div 4^(i - 13)) % 4 ELSE 0
             r == rem * 4 + pair
             trial == root * 4 + 1
         IN  IF r >= trial THEN SqrtBits(m, i - 1, r - trial, root * 2 + 1)
             ELSE SqrtBits(m, i - 1, r, root * 2)

\* sqrt(x)
B32Sqrt(x) ==
    IF B32IsNaN(x) THEN B32NaN
    ELSE IF B32IsZero(x) THEN B32Zero
    ELSE IF x[1] < 0 THEN B32NaN
    ELSE IF B32IsInf(x) THEN x
    ELSE LET odd == x[3] % 2 # 0
             m == IF odd THEN 2 * x[2] ELSE x[2]
             e == IF odd THEN x[3] - 1 ELSE x[3]
             rr == SqrtBits(m, 25, 0, 0)
         IN  RoundPack(1, rr[1], (e \div 2) - 13, rr[2] # 0)

\* x < y on floats: false as soon as one side is NaN
B32Less(x, y) ==
    IF B32IsNaN(x) \/ B32IsNaN(y) THEN FALSE
    ELSE IF x = y THEN FALSE
    ELSE IF B32IsInf(x) THEN x[1] < 0
    ELSE IF B32IsInf(y) THEN y[1] > 0
    ELSE IF B32IsZero(x) THEN y[1] > 0
    ELSE IF B32IsZero(y) THEN x[1] < 0
    ELSE IF x[1] # y[1] THEN x[1] < y[1]
    ELSE LET below == x[3] < y[3] \/ (x[3] = y[3] /\ x[2] < y[2])
         IN  IF x[1] > 0 THEN below ELSE ~below

\* std::min(a, b) == (b < a) ? b : a
B32Min(a, b) == IF B32Less(b, a) THEN b ELSE a

(***************************************************************************)
(* Strings and paths.                                                      *)
(***************************************************************************)
Slash == 47

\* std::string operator<: lexical on the character codes, a proper prefix first
RECURSIVE StrLess(_, _)
StrLess(s, t) ==
    IF t = <<>> THEN FALSE
    ELSE IF s = <<>> THEN TRUE
    ELSE IF Head(s) # Head(t) THEN Head(s) < Head(t)
    ELSE StrLess(Tail(s), Tail(t))

\* fs::path(p).filename().string(): what follows the last '/'
RECURSIVE Basename(_)
Basename(p) ==
    IF \E i \in 1..Len(p) : p[i] = Slash
    THEN Basename(Tail(p))
    ELSE p

\* directory / name as fs::directory_iterator yields entry.path(): a separator
\* is added unless the directory already ends with one
EntryPath(dir, name) ==
    IF dir # <<>> /\ dir[Len(dir)] = Slash THEN dir \o name
    ELSE dir \o <<Slash>> \o name

(***************************************************************************)
(* Decoded images (cv::Mat of Vec3b, channels in B,G,R order).             *)
(*   kind "uniform" : every pixel has colour top                           *)
(*   kind "halves"  : rows above rows/2 have colour top, the others bot    *)
(*   kind "coord"   : pixel (y, x) is <<y, x, y * cols + x>>               *)
(***************************************************************************)
Img(r, c, k, t, b) == [rows |-> r, cols |-> c, kind |-> k, top |-> t, bot |-> b]

\* the empty Mat imread returns for a file it cannot read or decode
NoImage == Img(0, 0, "uniform", <<0, 0, 0>>, <<0, 0, 0>>)

\* Mat::empty()
IsEmpty(image) == image.rows = 0 \/ image.cols = 0

InBounds(image, y, x) == 0 <= y /\ y < image.rows /\ 0 <= x /\ x < image.cols

\* image.at<Vec3b>(y, x) for a coordinate inside the image
PixelAt(image, y, x) ==
    IF image.kind = "coord" THEN <<y, x, y * image.cols + x>>
    ELSE IF image.kind = "halves" /\ y >= image.rows \div 2 THEN image.bot
    ELSE image.top

\* image.at<Vec3b>(y, x) as the loops call it: no bounds check in a release
\* build, so a coordinate outside the image reads whatever bytes lie there
\* (garbage stands for them)
AtUnchecked(image, y, x, garbage) ==
    IF InBounds(image, y, x) THEN PixelAt(image, y, x)
    ELSE <<garbage, garbage, garbage>>

(***************************************************************************)
(* computeBaselineFeatureVector (compute_features.cpp, find_matches.cpp).  *)
(***************************************************************************)
halfSize == 3

\* the inner loop over x, pushing pixel[0], pixel[1], pixel[2]
RECURSIVE BaselineRow(_, _, _, _, _)
BaselineRow(image, y, x, xEnd, garbage) ==
    IF x > xEnd THEN <<>>
    ELSE LET pixel == AtUnchecked(image, y, x, garbage)
         IN  <<F(pixel[1]), F(pixel[2]), F(pixel[3])>>
                 \o BaselineRow(image, y, x + 1, xEnd, garbage)

\* the outer loop over y
RECURSIVE BaselineRows(_, _, _, _)
BaselineRows(image, y, yEnd, garbage) ==
    IF y > yEnd THEN <<>>
    ELSE LET centerX == image.cols \div 2
         IN  BaselineRow(image, y, centerX - halfSize, centerX + halfSize, garbage)
                 \o BaselineRows(image, y + 1, yEnd, garbage)

\* the same loops around ((height - 1) / 2): the block an even height would
\* get if the centre leaned to the top instead of the bottom
computeBaselineFeatureVectorUpper(image, garbage) ==
    LET centerY == (image.rows - 1) \div 2
    IN  BaselineRows(image, centerY - halfSize, centerY + halfSize, garbage)

computeBaselineFeatureVector(image, garbage) ==
    LET centerY == image.rows \div 2
    IN  BaselineRows(image, centerY - halfSize, centerY + halfSize, garbage)

\* the coordinates <<y, x>> the two loops hand to image.at
BaselineReads(image) ==
    LET centerX == image.cols \div 2
        centerY == image.rows \div 2
    IN  { <<y, x>> : y \in (centerY - halfSize)..(centerY + halfSize),
                     x \in (centerX - halfSize)..(centerX + halfSize) }

\* the reads that fall outside the image
BaselineOutside(image) ==
    { p \in BaselineReads(image) : ~InBounds(image, p[1], p[2]) }

(***************************************************************************)
(* Histograms.  A histogram (cv::Mat of CV_32F) is kept flattened in       *)
(* row-major order, the order in which the programs write and read it:     *)
(* hist.at(i, j, k) is element (i * bins + j) * bins + k + 1.              *)
(***************************************************************************)
\* the range every channel value is binned over
ChannelRange == 256

\* cv::Rect(x, y, width, height)
Rect(x, y, w, h) == [x |-> x, y |-> y, width |-> w, height |-> h]

\* the pixels of a region, as the two loops visit them
RegionPixels(region) ==
    { <<y, x>> : y \in region.y..(region.y + region.height - 1),
                 x \in region.x..(region.x + region.width - 1) }

WholeImage(image) == Rect(0, 0, image.cols, image.rows)

\* min(static_cast<int>(value * bins / 256), bins - 1)
ColourBin(value, bins) == MinInt((value * bins) \div ChannelRange, bins - 1)

\* the flattened index of the bucket hist.at<float>(rBin, gBin, bBin) of a pixel
RGBIndex(pixel, bins) ==
    LET rBin == ColourBin(pixel[3], bins)
        gBin == ColourBin(pixel[2], bins)
        bBin == ColourBin(pixel[1], bins)
    IN  (rBin * bins + gBin) * bins + bBin + 1

\* the number of rows y of a region with lo <= y < hi
RowsWithin(region, lo, hi) ==
    LET first == IF region.y > lo THEN region.y ELSE lo
        last == MinInt(region.y + region.height, hi)
    IN  IF last > first THEN last - first ELSE 0

\* the number of the region's pixels whose bucket is k: the pixels of a
\* uniform image and of the two bands of a "halves" image are counted by
\* area, those of a "coord" image one by one
PixelsInBucket(image, bins, region, k) ==
    LET mid == image.rows \div 2
        end == region.y + region.height
        width == IF region.width > 0 THEN region.width ELSE 0
    IN  IF image.kind = "coord"
        THEN Cardinality({p \in RegionPixels(region) :
                             RGBIndex(PixelAt(image, p[1], p[2]), bins) = k})
        ELSE IF image.kind = "halves"
        THEN (IF RGBIndex(image.top, bins) = k
              THEN RowsWithin(region, region.y, mid) * width ELSE 0)
           + (IF RGBIndex(image.bot, bins) = k
              THEN RowsWithin(region, mid, end) * width ELSE 0)
        ELSE IF RGBIndex(image.top, bins) = k
        THEN RowsWithin(region, region.y, end) * width ELSE 0

\* the largest count a float bucket reaches: 2^24 + 1 is not a float, and
\* 2^24 + 1.0f rounds back to 2^24
FloatCountMax == 16777216

\* the value of a bucket of a CV_32F histogram after n times
\* hist.at<float>(...)++
FloatCount(n) == MinInt(n, FloatCountMax)

\* computeRGBHistogram(image, bins, region): the count of the region's pixels
\* in every bucket
computeRGBHistogramRegion(image, bins, region) ==
    [k \in 1..(bins * bins * bins) |->
        F(FloatCount(PixelsInBucket(image, bins, region, k)))]

\* computeRGBHistogram(image, bins) over the whole image
computeRGBHistogram(image, bins) ==
    computeRGBHistogramRegion(image, bins, WholeImage(image))

\* min(static_cast<int>(r * bins), bins - 1) with r = value / 255.0
ChromaBin(value, bins) == MinInt((value * bins) \div 255, bins - 1)

\* computeRGChromaticityHistogram(image, bins)
computeRGChromaticityHistogram(image, bins) ==
    [k \in 1..(bins * bins) |->
        F(Cardinality({p \in RegionPixels(WholeImage(image)) :
              LET pixel == PixelAt(image, p[1], p[2])
              IN  ChromaBin(pixel[3], bins) * bins + ChromaBin(pixel[2], bins) + 1 = k}))]

\* cvtColor(image, gray, COLOR_BGR2GRAY): 8-bit fixed-point luminance
GrayAt(image, y, x) ==
    LET pixel == PixelAt(image, y, x)
    IN  (pixel[3] * 4899 + pixel[2] * 9617 + pixel[1] * 1868 + 8192) \div 16384

\* BORDER_DEFAULT (reflect-101) index of a 3-wide kernel
Reflect101(p, len) ==
    IF len = 1 THEN 0
    ELSE IF p < 0 THEN -p
    ELSE IF p >= len THEN 2 * len - 2 - p
    ELSE p

GrayBorder(image, y, x) ==
    GrayAt(image, Reflect101(y, image.rows), Reflect101(x, image.cols))

\* Sobel(gray, grad_x, CV_16S, 1, 0, 3)
SobelX(image, y, x) ==
      (GrayBorder(image, y - 1, x + 1) - GrayBorder(image, y - 1, x - 1))
    + 2 * (GrayBorder(image, y, x + 1) - GrayBorder(image, y, x - 1))
    + (GrayBorder(image, y + 1, x + 1) - GrayBorder(image, y + 1, x - 1))

\* Sobel(gray, grad_y, CV_16S, 0, 1, 3)
SobelY(image, y, x) ==
      (GrayBorder(image, y + 1, x - 1) - GrayBorder(image, y - 1, x - 1))
    + 2 * (GrayBorder(image, y + 1, x) - GrayBorder(image, y - 1, x))
    + (GrayBorder(image, y + 1, x + 1) - GrayBorder(image, y - 1, x + 1))

\* convertScaleAbs: |v| saturated to 8 bits
ConvertScaleAbs(v) == MinInt(Abs(v), 255)

\* addWeighted(abs_grad_x, 0.5, abs_grad_y, 0.5, 0, grad): the half sum,
\* rounded to the nearest integer, a tie to the even one
GradAt(image, y, x) ==
    LET s == ConvertScaleAbs(SobelX(image, y, x)) + ConvertScaleAbs(SobelY(image, y, x))
        q == s \div 2
    IN  IF s % 2 = 0 THEN q ELSE IF q % 2 = 0 THEN q ELSE q + 1

\* computeTextureHistogram(image, bins): calcHist of the gradient magnitudes
\* over [0, 256) in bins uniform buckets
computeTextureHistogram(image, bins) ==
    [k \in 1..bins |->
        F(Cardinality({p \in RegionPixels(WholeImage(image)) :
              (GradAt(image, p[1], p[2]) * bins) \div ChannelRange + 1 = k}))]

\* normalizeHistogram(hist): a copy of hist scaled by 1 / sum(hist)
normalizeHistogram(hist) ==
    LET scale == FInv(SumF(hist, 1, Len(hist)))
    IN  [k \in 1..Len(hist) |-> FMul(hist[k], scale)]

\* computeHistogramIntersection(hist1, hist2): sum(min(hist1, hist2)) over
\* the elements of hist1
computeHistogramIntersection(hist1, hist2) ==
    SumF([k \in 1..Len(hist1) |-> FMin(hist1[k], hist2[k])], 1, Len(hist1))

(***************************************************************************)
(* The text of a store file.  A line is the text of its first field (the   *)
(* image id as written) and the tokens of its other comma-separated        *)
(* fields.  A token is the text of one numeric field:                      *)
(*   k = "num"   a well-formed number, of value v                          *)
(*   k = "junk"  a number of value v followed by extra characters          *)
(*   k = "alpha" text that does not start with a number                    *)
(*   k = "empty" no text at all                                            *)
(***************************************************************************)
Token(kind, value) == [k |-> kind, v |-> value]

\* stof(value) throws std::invalid_argument when no conversion can be done
StofThrows(token) == token.k \in {"alpha", "empty"}

\* stof(value): the longest numeric prefix, whatever follows it
Stof(token) == token.v

\* the default precision of an ostream: 6 significant digits
Precision == 6

RECURSIVE Pow10(_)
Pow10(k) == IF k = 0 THEN 1 ELSE 10 * Pow10(k - 1)

\* the decimal exponent e of n / d: 10^e <= n / d < 10^(e + 1)
RECURSIVE Exp10(_, _)
Exp10(n, d) ==
    IF n >= 10 * d THEN Exp10(n, 10 * d) + 1
    ELSE IF n < d THEN Exp10(10 * n, d) - 1
    ELSE 0

\* a / b rounded to the nearest integer, a tie to the even one
RoundDiv(a, b) ==
    LET q == a \div b
        r == a % b
    IN  IF 2 * r < b THEN q
        ELSE IF 2 * r > b THEN q + 1
        ELSE IF q % 2 = 0 THEN q ELSE q + 1

\* the value of the text that outFile << value writes for a float
FormatValue(x) ==
    IF ~IsFinite(x) \/ x[1] = 0 THEN x
    ELSE LET n == Abs(x[1])
             scale == Precision - 1 - Exp10(n, x[2])
         IN  IF scale >= 0
             THEN Norm(Sign(x[1]) * RoundDiv(n * Pow10(scale), x[2]), Pow10(scale))
             ELSE F(Sign(x[1]) * RoundDiv(n, x[2] * Pow10(-scale)) * Pow10(-scale))

\* outFile << "," << value
FormatFloat(x) == Token("num", FormatValue(x))

\* outFile << filename, then "," << value for every value, then endl
WriteLine(filename, values) ==
    [id |-> filename, vals |-> [k \in 1..Len(values) |-> FormatFloat(values[k])]]

\* the character ','
Comma == 44

\* the pieces getline(ss, piece, ',') cuts a text into
RECURSIVE SplitAtCommas(_, _)
SplitAtCommas(text, piece) ==
    IF text = <<>> THEN <<piece>>
    ELSE IF Head(text) = Comma THEN <<piece>> \o SplitAtCommas(Tail(text), <<>>)
    ELSE SplitAtCommas(Tail(text), Append(piece, Head(text)))

IsDigit(c) == 48 <= c /\ c <= 57

\* the number of the digits a text starts with
RECURSIVE LeadingNumber(_, _)
LeadingNumber(text, n) ==
    IF text = <<>> \/ ~IsDigit(Head(text)) THEN n
    ELSE LeadingNumber(Tail(text), 10 * n + Head(text) - 48)

\* a piece of a file name (letters, digits, dots) as the field stof gets
TextToken(text) ==
    IF text = <<>> THEN Token("empty", F(0))
    ELSE IF ~IsDigit(Head(text)) THEN Token("alpha", F(0))
    ELSE IF \A k \in 1..Len(text) : IsDigit(text[k])
    THEN Token("num", F(LeadingNumber(text, 0)))
    ELSE Token("junk", F(LeadingNumber(text, 0)))

\* a written line as the reader's getline(ss, filename, ',') and
\* getline(ss, value, ',') cut it: the text of the first field ends at its
\* first comma, and what follows it is read as values
ReadLine(line) ==
    LET pieces == SplitAtCommas(line.id, <<>>)
    IN  [id |-> Head(pieces),
         vals |-> [k \in 1..(Len(pieces) - 1) |-> TextToken(pieces[k + 1])] \o line.vals]

(***************************************************************************)
(* State.                                                                  *)
(***************************************************************************)
VARIABLES
    \* SpecPatch: one call of computeBaselineFeatureVector
    pImage,     \* the image passed
    pPc,        \* "call", "returned", "aborted"
    pVec,       \* the vector returned
    pOutside,   \* the coordinates outside the image that were read
    \* SpecExtract: one run of an extraction program
    xProg,      \* the program
    xDir,       \* argv: the image directory
    xType,      \* argv: the feature type (compute_features)
    xOutOk,     \* whether the output file can be opened for writing
    xEntries,   \* the directory's entries, in enumeration order
    xPc,        \* "start", "loop", "exit"
    xIdx,       \* entries handled so far
    xFile,      \* the output file: its lines, in write order
    xTouched,   \* whether the output file has been created or truncated
    xLog,       \* what was written to cerr
    xExit,      \* the exit code, -1 while running, 134 when aborted
    \* Spec: one run of a matcher program
    prog,       \* the program
    targetFile, \* argv: the target image path
    featureType,\* argv: the feature type (find_matches, find_matcheshisto)
    imageDir,   \* argv: the image directory (custom_design)
    numMatches, \* argv: the number of matches
    fileOk,     \* whether the store file can be opened for reading
    storeFile,  \* the store file: its lines
    disk,       \* the image files: name |-> decoded image
    pc,         \* where the run is
    query,      \* custom_design: which findTopMatches call is running
    lineNo,     \* store lines or records handled so far in the current loop
    features,   \* the records read by readFeatureVectorsFromFile
    target,     \* the target's representation
    distances,  \* the (score, imageId) list of the current query
    shown,      \* the lists printed to cout, one entry per list
    log,        \* what was written to cerr
    exitCode,   \* the exit code, -1 while running, 134 when aborted
    \* SpecCall: one call of one function
    cFun,       \* the function called
    cArgs,      \* its arguments
    cPc,        \* "call", "returned"
    cRet,       \* what it returned
    cHeap       \* the buffers of the Mats of the call

pvars == <<pImage, pPc, pVec, pOutside>>

xvars == <<xProg, xDir, xType, xOutOk, xEntries, xPc, xIdx, xFile, xTouched,
           xLog, xExit>>

mvars == <<prog, targetFile, featureType, imageDir, numMatches, fileOk, storeFile, disk, pc, query,
           lineNo, features, target, distances, shown, log, exitCode>>

cvars == <<cFun, cArgs, cPc, cRet, cHeap>>

vars == <<pvars, xvars, mvars, cvars>>

\* the value the variables of the other specifications keep
CallIdle == cFun = "none" /\ cArgs = <<>> /\ cPc = "idle" /\ cRet = <<>> /\ cHeap = <<>>

PatchIdle == pImage = NoImage /\ pPc = "idle" /\ pVec = <<>> /\ pOutside = {}

ExtractIdle ==
    /\ xProg = "none" /\ xDir = <<>> /\ xType = "none" /\ xOutOk = FALSE
    /\ xEntries = <<>> /\ xPc = "idle" /\ xIdx = 0 /\ xFile = <<>>
    /\ xTouched = FALSE /\ xLog = <<>> /\ xExit = -1

MatchIdle ==
    /\ prog = "none" /\ targetFile = <<>> /\ featureType = "none"
    /\ imageDir = <<>> /\ numMatches = 0 /\ fileOk = FALSE
    /\ storeFile = <<>> /\ disk = <<>> /\ pc = "idle" /\ query = 0
    /\ lineNo = 0 /\ features = <<>> /\ target = <<>> /\ distances = <<>>
    /\ shown = <<>> /\ log = <<>> /\ exitCode = -1

(***************************************************************************)
(* SpecPatch: computeBaselineFeatureVector on one image.                   *)
(***************************************************************************)
Grey == <<100, 100, 100>>

\* what an out-of-bounds read may find in memory
GarbageBytes == {0, 255}

PatchImages ==
    { Img(r, c, k, Grey, Grey) : r \in 1..MaxDim, c \in 1..MaxDim,
                                 k \in {"uniform", "coord"} }

PatchInit ==
    /\ pImage \in PatchImages
    /\ pPc = "call"
    /\ pVec = <<>>
    /\ pOutside = {}
    /\ ExtractIdle
    /\ MatchIdle
    /\ CallIdle

\* every read is inside the image: the vector is returned
PatchReturn ==
    /\ pPc = "call"
    /\ BaselineOutside(pImage) = {}
    /\ pVec' = computeBaselineFeatureVector(pImage, 0)
    /\ pPc' = "returned"
    /\ UNCHANGED <<pImage, pOutside, xvars, mvars, cvars>>

\* some read is outside the image and nothing checks it (Mat::at asserts in
\* debug builds only): a release build returns a vector holding whatever the
\* reads found
PatchReadOutside ==
    /\ pPc = "call"
    /\ BaselineOutside(pImage) # {}
    /\ \E garbage \in GarbageBytes :
           pVec' = computeBaselineFeatureVector(pImage, garbage)
    /\ pOutside' = BaselineOutside(pImage)
    /\ pPc' = "returned"
    /\ UNCHANGED <<pImage, xvars, mvars, cvars>>

\* the same call in a debug build (the assertion of Mat::at throws), or with
\* a read that faults
PatchAbort ==
    /\ pPc = "call"
    /\ BaselineOutside(pImage) # {}
    /\ pPc' = "aborted"
    /\ UNCHANGED <<pImage, pVec, pOutside, xvars, mvars, cvars>>

PatchNext == PatchReturn \/ PatchReadOutside \/ PatchAbort

SpecPatch == PatchInit /\ [][PatchNext]_vars

(***************************************************************************)
(* SpecExtract: compute_features, compute_histo_features,                  *)
(* compute_featuresmulti and compute_featurescolorandtexture.              *)
(***************************************************************************)
\* the bin count compute_histo_features and find_matcheshisto pass (the
\* programs pass 16; the model runs the same code with fewer bins)
HistoBins == 2
\* the bin count of the RGB and texture histograms (the programs pass 8)
ColourBins == 2

Red == <<0, 0, 255>>

Black == <<0, 0, 0>>

\* hist.at<float>(i, j) and hist.at<float>(i, j, k)
At2(hist, bins, i, j) == hist[i * bins + j + 1]

At3(hist, bins, i, j, k) == hist[(i * bins + j) * bins + k + 1]

\* the loops for i, for j (, for k) that write or push a histogram's elements
Flatten2(hist, bins) ==
    [n \in 1..(bins * bins) |-> At2(hist, bins, (n - 1) \div bins, (n - 1) % bins)]

Flatten3(hist, bins) ==
    [n \in 1..(bins * bins * bins) |->
        At3(hist, bins, (n - 1) \div (bins * bins), ((n - 1) \div bins) % bins,
            (n - 1) % bins)]

\* for (i < bins) textureHist.at<float>(i)
Flatten1(hist, bins) == [n \in 1..bins |-> hist[n]]

\* Rect topHalf(0, 0, cols, rows / 2), Rect bottomHalf(0, rows / 2, cols, rows / 2)
topHalf(image) == Rect(0, 0, image.cols, image.rows \div 2)

bottomHalf(image) == Rect(0, image.rows \div 2, image.cols, image.rows \div 2)

\* the values each extraction program writes after the file name
HistoVector(image) ==
    Flatten2(normalizeHistogram(computeRGChromaticityHistogram(image, HistoBins)),
             HistoBins)

MultiVector(image) ==
    LET topHist == normalizeHistogram(
                       computeRGBHistogramRegion(image, ColourBins, topHalf(image)))
        bottomHist == normalizeHistogram(
                       computeRGBHistogramRegion(image, ColourBins, bottomHalf(image)))
    IN  Flatten3(topHist, ColourBins) \o Flatten3(bottomHist, ColourBins)

ColourTextureVector(image) ==
    LET colorHist == normalizeHistogram(computeRGBHistogram(image, ColourBins))
        textureHist == normalizeHistogram(computeTextureHistogram(image, ColourBins))
    IN  Flatten3(colorHist, ColourBins) \o Flatten1(textureHist, ColourBins)

ExtractVector(program, image, garbage) ==
    IF program = "compute_features" THEN computeBaselineFeatureVector(image, garbage)
    ELSE IF program = "compute_histo_features" THEN HistoVector(image)
    ELSE IF program = "compute_featuresmulti" THEN MultiVector(image)
    ELSE ColourTextureVector(image)

ExtractProgs == {"compute_features", "compute_histo_features",
                 "compute_featuresmulti", "compute_featurescolorandtexture"}

\* the directory arguments "d" and "./"
DirArgs == {<<100>>, <<46, 47>>}

\* the file names "a", "b", ...
Names(n) == { <<96 + i>> : i \in 1..n }

\* the decodable images of the directory
ExtractImages == { Img(8, 8, "coord", Grey, Grey),
                   Img(2, 2, "halves", Red, Black),
                   Img(1, 2, "uniform", Red, Red) }

\* a directory entry: a regular file holding an image, a regular file imread
\* cannot decode, or a subdirectory
EntryChoices(name) ==
    { [name |-> name, regular |-> TRUE, image |-> i] : i \in ExtractImages \cup {NoImage} }
        \cup { [name |-> name, regular |-> FALSE, image |-> NoImage] }

\* the sequences of at most n entries with distinct names
Directories(n) ==
    UNION { { e \in [1..m -> UNION { EntryChoices(nm) : nm \in Names(n) }] :
                \A i, j \in 1..m : i # j => e[i].name # e[j].name } : m \in 0..n }

ExtractInit ==
    /\ xProg \in ExtractProgs
    /\ xDir \in DirArgs
    /\ xType \in IF xProg = "compute_features" THEN {"baseline", "other"} ELSE {"none"}
    /\ xOutOk \in BOOLEAN
    /\ xEntries \in Directories(MaxEntries)
    /\ xPc = "start"
    /\ xIdx = 0
    /\ xFile = <<>>
    /\ xTouched = FALSE
    /\ xLog = <<>>
    /\ xExit = -1
    /\ PatchIdle
    /\ MatchIdle
    /\ CallIdle

\* entry.path().string() of the entry the loop is at
XFilename == EntryPath(xDir, xEntries[xIdx + 1].name)

\* imread(filename) of the entry the loop is at
XImage == xEntries[xIdx + 1].image

\* ofstream outFile(outputFile) fails.  compute_features returns 1; the other
\* programs return from writeHistogramFeaturesToFile and main returns 0
XOpenFail ==
    /\ xPc = "start"
    /\ ~xOutOk
    /\ xLog' = Append(xLog, "Could not open output file")
    /\ xExit' = IF xProg = "compute_features" THEN 1 ELSE 0
    /\ xPc' = "exit"
    /\ UNCHANGED <<xProg, xDir, xType, xOutOk, xEntries, xIdx, xFile, xTouched,
                   pvars, mvars, cvars>>

\* ofstream outFile(outputFile) creates or truncates the file
XOpen ==
    /\ xPc = "start"
    /\ xOutOk
    /\ xTouched' = TRUE
    /\ xPc' = "loop"
    /\ UNCHANGED <<xProg, xDir, xType, xOutOk, xEntries, xIdx, xFile, xLog, xExit,
                   pvars, mvars, cvars>>

XInLoop == xPc = "loop" /\ xIdx < Len(xEntries)

\* compute_features has no is_regular_file test
XRegular == xProg = "compute_features" \/ xEntries[xIdx + 1].regular

\* an entry that is not a regular file is passed over
XNotRegular ==
    /\ XInLoop
    /\ ~XRegular
    /\ xIdx' = xIdx + 1
    /\ UNCHANGED <<xProg, xDir, xType, xOutOk, xEntries, xPc, xFile, xTouched,
                   xLog, xExit, pvars, mvars, cvars>>

\* the same without the continue: the error is logged and a line with the
\* file name and no value is written all the same
XUnreadableFallsThrough ==
    /\ XInLoop
    /\ XRegular
    /\ IsEmpty(XImage)
    /\ xLog' = Append(xLog, "Could not open image")
    /\ xFile' = Append(xFile, WriteLine(XFilename, <<>>))
    /\ xIdx' = xIdx + 1
    /\ UNCHANGED <<xProg, xDir, xType, xOutOk, xEntries, xPc, xTouched,
                   xExit, pvars, mvars, cvars>>

\* image.empty(): the error is logged and the loop continues
XUnreadable ==
    /\ XInLoop
    /\ XRegular
    /\ IsEmpty(XImage)
    /\ xLog' = Append(xLog, "Could not open image")
    /\ xIdx' = xIdx + 1
    /\ UNCHANGED <<xProg, xDir, xType, xOutOk, xEntries, xPc, xFile, xTouched,
                   xExit, pvars, mvars, cvars>>

\* compute_features with a feature type other than "baseline": return 1 at
\* the first image that could be read
XUnknownType ==
    /\ XInLoop
    /\ XRegular
    /\ ~IsEmpty(XImage)
    /\ xProg = "compute_features"
    /\ xType # "baseline"
    /\ xLog' = Append(xLog, "Unknown feature type")
    /\ xExit' = 1
    /\ xPc' = "exit"
    /\ UNCHANGED <<xProg, xDir, xType, xOutOk, xEntries, xIdx, xFile, xTouched,
                   pvars, mvars, cvars>>

XComputes ==
    /\ XInLoop
    /\ XRegular
    /\ ~IsEmpty(XImage)
    /\ xProg = "compute_features" => xType = "baseline"

\* whether computing the entry's vector reads outside the image
XReadsOutside == xProg = "compute_features" /\ BaselineOutside(XImage) # {}

\* the vector is computed and the line filename,v1,...,vn is written
XWrite ==
    /\ XComputes
    /\ \E garbage \in (IF XReadsOutside THEN GarbageBytes ELSE {0}) :
           xFile' = Append(xFile, WriteLine(XFilename,
                                            ExtractVector(xProg, XImage, garbage)))
    /\ xIdx' = xIdx + 1
    /\ UNCHANGED <<xProg, xDir, xType, xOutOk, xEntries, xPc, xTouched, xLog,
                   xExit, pvars, mvars, cvars>>

\* a read outside the image that throws (debug build) or faults: nothing
\* catches it and the run is aborted
XAbort ==
    /\ XComputes
    /\ XReadsOutside
    /\ xExit' = 134
    /\ xPc' = "exit"
    /\ UNCHANGED <<xProg, xDir, xType, xOutOk, xEntries, xIdx, xFile, xTouched,
                   xLog, pvars, mvars, cvars>>

\* the loop is over: outFile.close() and return 0
XFinish ==
    /\ xPc = "loop"
    /\ xIdx = Len(xEntries)
    /\ xExit' = 0
    /\ xPc' = "exit"
    /\ UNCHANGED <<xProg, xDir, xType, xOutOk, xEntries, xIdx, xFile, xTouched,
                   xLog, pvars, mvars, cvars>>

ExtractNext ==
    \/ XOpenFail
    \/ XOpen
    \/ XNotRegular
    \/ XUnreadable
    \/ XUnknownType
    \/ XWrite
    \/ XAbort
    \/ XFinish

SpecExtract == ExtractInit /\ [][ExtractNext]_vars

(***************************************************************************)
(* The matchers: metrics.                                                  *)
(***************************************************************************)
\* the sum of the differences, not squared
computeSSDSigned(vec1, vec2) ==
    SumF([i \in 1..Len(vec1) |-> FSub(vec1[i], vec2[i])], 1, Len(vec1))

\* computeSSD(vec1, vec2): the loop runs over the indices of vec1
computeSSD(vec1, vec2) ==
    SumF([i \in 1..Len(vec1) |->
             LET diff == FSub(vec1[i], vec2[i]) IN FMul(diff, diff)],
         1, Len(vec1))

\* computeCosineDistance(v1, v2): the loop runs over the indices of v1
computeCosineDistance(v1, v2) ==
    LET dotProduct == SumF([i \in 1..Len(v1) |-> FMul(v1[i], v2[i])], 1, Len(v1))
        normV1 == FSqrt(SumF([i \in 1..Len(v1) |-> FMul(v1[i], v1[i])], 1, Len(v1)))
        normV2 == FSqrt(SumF([i \in 1..Len(v1) |-> FMul(v2[i], v2[i])], 1, Len(v1)))
    IN  FSub(F(1), FDiv(dotProduct, FMul(normV1, normV2)))

\* computeCombinedDistance of custom_design
computeCombinedDistance(colorHist1, colorHist2, textureHist1, textureHist2, deepFeature1, deepFeature2) ==
    LET colorDistance == FSub(F(1), computeHistogramIntersection(colorHist1, colorHist2))
        textureDistance ==
            FSub(F(1), computeHistogramIntersection(textureHist1, textureHist2))
        deepDistance == computeCosineDistance(deepFeature1, deepFeature2)
    IN  FAdd(FAdd(FMul(<<2, 5>>, colorDistance), FMul(<<3, 10>>, textureDistance)),
             FMul(<<3, 10>>, deepDistance))

(***************************************************************************)
(* The matchers: parsing a store line.                                     *)
(***************************************************************************)
\* while (getline(ss, value, ',')) featureVector.push_back(stof(value))
\* throws when a field has no numeric prefix
ParseThrows(line) == \E i \in 1..Len(line.vals) : StofThrows(line.vals[i])

ParseVector(line) == [i \in 1..Len(line.vals) |-> Stof(line.vals[i])]

\* find_matchesmulti reads exactly 2 * bins^3 fields, the first bins^3 into
\* hist1 and the next bins^3 into hist2
MultiThrows(line, bins) ==
    \E i \in 1..(2 * bins * bins * bins) : StofThrows(line.vals[i])

MultiHist(line, bins, which) ==
    [n \in 1..(bins * bins * bins) |->
        Stof(line.vals[(which - 1) * bins * bins * bins + n])]

\* Mat featureMat(16, 16, CV_32F, featureVector.data())
Reshape2(featureVector, bins) == [n \in 1..(bins * bins) |-> featureVector[n]]

(***************************************************************************)
(* The matchers: the target's representation and the score of a record.    *)
(***************************************************************************)
\* find_matcheshisto: normalizeHistogram(computeRGChromaticityHistogram(target, 16))
HistoTarget(image) ==
    normalizeHistogram(computeRGChromaticityHistogram(image, HistoBins))

\* find_matchesmulti: topHist and bottomHist of the target
MultiTarget(image) ==
    <<normalizeHistogram(computeRGBHistogramRegion(image, ColourBins, topHalf(image))),
      normalizeHistogram(computeRGBHistogramRegion(image, ColourBins, bottomHalf(image)))>>

\* find_matchescolortexture: the flattened colour and texture histograms
ColourTextureTarget(image) ==
    Flatten3(normalizeHistogram(computeRGBHistogram(image, ColourBins)), ColourBins)
        \o Flatten1(normalizeHistogram(computeTextureHistogram(image, ColourBins)),
                    ColourBins)

\* custom_design: targetColorHist and targetTextureHist
CustomHists(image) ==
    <<normalizeHistogram(computeRGBHistogram(image, ColourBins)),
      normalizeHistogram(computeTextureHistogram(image, ColourBins))>>

\* find_matcheshisto: 1 - intersection with the normalized row
HistoScore(targetFeature, featureVector) ==
    LET featureMat == normalizeHistogram(Reshape2(featureVector, HistoBins))
    IN  FSub(F(1), computeHistogramIntersection(targetFeature, featureMat))

\* find_matchesmulti: the mean of the two intersections
MultiScore(targetHists, line) ==
    LET hist1 == normalizeHistogram(MultiHist(line, ColourBins, 1))
        hist2 == normalizeHistogram(MultiHist(line, ColourBins, 2))
        distance1 == computeHistogramIntersection(targetHists[1], hist1)
        distance2 == computeHistogramIntersection(targetHists[2], hist2)
    IN  FDiv(FAdd(distance1, distance2), F(2))

\* find_matchescolortexture: the row is split at bins^3 and each part is
\* intersected with the matching part of the target
ColourTextureScore(targetFeatureVector, featureVector) ==
    LET split == ColourBins * ColourBins * ColourBins
        colorFeatureVector == SubSeq(featureVector, 1, split)
        textureFeatureVector == SubSeq(featureVector, split + 1, Len(featureVector))
        colorDistance ==
            SumF([i \in 1..Len(colorFeatureVector) |->
                     FMin(targetFeatureVector[i], colorFeatureVector[i])],
                 1, Len(colorFeatureVector))
        textureDistance ==
            SumF([i \in 1..Len(textureFeatureVector) |->
                     FMin(targetFeatureVector[split + i], textureFeatureVector[i])],
                 1, Len(textureFeatureVector))
    IN  FDiv(FAdd(colorDistance, textureDistance), F(2))

(***************************************************************************)
(* The matchers: sorting and reporting.                                    *)
(***************************************************************************)
\* operator< of pair<float, string>
PairLess(a, b) ==
    FLess(a[1], b[1]) \/ (~FLess(b[1], a[1]) /\ StrLess(a[2], b[2]))

\* greater<pair<float, string>>: a > b is b < a
PairGreater(a, b) == PairLess(b, a)

\* the comparison each program hands to sort
Descending(program) ==
    program \in {"find_matchesmulti", "find_matchescolortexture"}

Before(program, a, b) == IF Descending(program) THEN PairGreater(a, b) ELSE PairLess(a, b)

\* whether the comparison is a strict weak ordering of the list's elements,
\* which std::sort requires (a NaN score can break it)
StrictWeak(program, list) ==
    LET E == { list[i] : i \in 1..Len(list) }
        Equiv(a, b) == ~Before(program, a, b) /\ ~Before(program, b, a)
    IN  /\ \A a \in E : ~Before(program, a, a)
        /\ \A a, b, c \in E :
               Before(program, a, b) /\ Before(program, b, c) => Before(program, a, c)
        /\ \A a, b, c \in E : Equiv(a, b) /\ Equiv(b, c) => Equiv(a, c)

Rearrangements(list) ==
    { [i \in 1..Len(list) |-> list[perm[i]]] : perm \in Permutations(1..Len(list)) }

IsSorted(program, list) ==
    \A i, j \in 1..Len(list) : i < j => ~Before(program, list[j], list[i])

\* sort(distances.begin(), distances.end() [, greater]): the sorted
\* rearrangement; with a comparison that is no strict weak ordering the
\* behaviour is undefined and any rearrangement may come out
SortOutcomes(program, list) ==
    IF StrictWeak(program, list)
    THEN { s \in Rearrangements(list) : IsSorted(program, s) }
    ELSE Rearrangements(list)

\* a value of type size_t that is v modulo 2^64, for |v| far below 2^63:
\* <<0, v>> stands for v >= 0 and <<1, v>> for 2^64 + v with v < 0
ToSizeT(v) == <<IF v < 0 THEN 1 ELSE 0, v>>

\* a < b and a >= b on size_t
ULess(a, b) == a[1] < b[1] \/ (a[1] = b[1] /\ a[2] < b[2])

UGeq(a, b) == ~ULess(a, b)

\* for (int i = 0; i < numMatches && i < distances.size(); ++i): the indices
\* printed, from i on
RECURSIVE TopIndices(_, _, _)
TopIndices(i, k, size) ==
    IF i < k /\ ULess(ToSizeT(i), ToSizeT(size))
    THEN <<i>> \o TopIndices(i + 1, k, size)
    ELSE <<>>

\* the least-similar loop with the test i >= -1 for i >= 0
RECURSIVE LeastIndicesPastFront(_, _, _)
LeastIndicesPastFront(i, k, size) ==
    IF UGeq(ToSizeT(i), ToSizeT(size - k)) /\ i >= -1
    THEN <<i>> \o LeastIndicesPastFront(i - 1, k, size)
    ELSE <<>>

\* for (int i = distances.size() - 1; i >= distances.size() - numMatches
\*      && i >= 0; --i): the indices printed, from i on.  The first test is
\* made on size_t: i is converted and the difference wraps
RECURSIVE LeastIndices(_, _, _)
LeastIndices(i, k, size) ==
    IF UGeq(ToSizeT(i), ToSizeT(size - k)) /\ i >= 0
    THEN <<i>> \o LeastIndices(i - 1, k, size)
    ELSE <<>>

\* the entries a loop prints: distances[i] for every index it visits
Printed(list, indices) == [n \in 1..Len(indices) |-> list[indices[n] + 1]]

TopPrinted(list, k) == Printed(list, TopIndices(0, k, Len(list)))

LeastPrinted(list, k) == Printed(list, LeastIndices(Len(list) - 1, k, Len(list)))

(***************************************************************************)
(* Spec: one run of a matcher program.                                     *)
(***************************************************************************)
\* the matchers that compute the target's representation from its image and
\* read the store line by line while scoring
StreamProgs == {"find_matches", "find_matcheshisto", "find_matchesmulti"}

\* the matchers that first read the whole store into features
ReaderProgs == {"find_matchescolortexture", "findmatcheswithdeepnetwork",
                "custom_design"}

\* the matchers that call imread(targetImageFile) first
ImageProgs == StreamProgs \cup {"find_matchescolortexture"}

\* the matchers that look the target's vector up in the store
LookupProgs == {"findmatcheswithdeepnetwork", "custom_design"}

MatchProgs == StreamProgs \cup ReaderProgs

\* "pic.0893.jpg" and "pic.0164.jpg", the targets custom_design queries, and "a"
Pic0893 == <<112, 105, 99, 46, 48, 56, 57, 51, 46, 106, 112, 103>>

Pic0164 == <<112, 105, 99, 46, 48, 49, 54, 52, 46, 106, 112, 103>>

NameA == <<97>>

\* findTopMatches("pic.0893.jpg", ...) then findTopMatches("pic.0164.jpg", ...)
CustomTarget(q) == IF q = 1 THEN Pic0893 ELSE Pic0164

\* the image ids of the store lines
StoreIds == {Pic0164, Pic0893, NameA}

\* the images behind the store lines and the targets (at least 7x7, so that
\* computeBaselineFeatureVector stays inside them)
ImgA == Img(8, 8, "halves", Red, Black)

ImgB == Img(8, 8, "uniform", Red, Red)

\* the deep-network vectors of the store lines
DeepVecs == { <<F(3), F(4)>>, <<F(4), F(3)>>, <<F(0), F(0)>> }

\* the extraction program that writes the store a matcher reads
ExtractorOf(program) ==
    IF program = "find_matches" THEN "compute_features"
    ELSE IF program = "find_matcheshisto" THEN "compute_histo_features"
    ELSE IF program = "find_matchesmulti" THEN "compute_featuresmulti"
    ELSE "compute_featurescolorandtexture"

\* the line written for an image, or holding a deep-network vector
ImageLine(program, id, image) ==
    WriteLine(id, ExtractVector(ExtractorOf(program), image, 0))

DeepLine(id, vector) == [id |-> id, vals |-> [k \in 1..Len(vector) |-> Token("num", vector[k])]]

\* the line with extra characters after its first number, and with a first
\* field that is no number
WithJunk(line) == [line EXCEPT !.vals[1] = Token("junk", line.vals[1].v)]

WithAlpha(line) == [line EXCEPT !.vals[1] = Token("alpha", F(0))]

LineChoices(program, id) ==
    IF program \in LookupProgs
    THEN { DeepLine(id, v) : v \in DeepVecs }
             \cup { WithJunk(DeepLine(id, <<F(3), F(4)>>)),
                    WithAlpha(DeepLine(id, <<F(4), F(3)>>)) }
    ELSE { ImageLine(program, id, ImgA), ImageLine(program, id, ImgB),
           WithJunk(ImageLine(program, id, ImgA)),
           WithAlpha(ImageLine(program, id, ImgB)) }

\* the store files of at most n lines with distinct image ids
StoreFiles(program, n) ==
    UNION { { f \in [1..m -> UNION { LineChoices(program, id) : id \in StoreIds }] :
                \A i, j \in 1..m : i # j => f[i].id # f[j].id } : m \in 0..n }

\* the target image file "q" of the matchers that read one
TargetPath == <<113>>

\* the image directory "d" of custom_design
CustomDir == <<100>>

CustomPath(dir, name) == dir \o <<Slash>> \o name

\* the image files of a custom_design run: every id has a file, at most one
\* of them unreadable
CustomDisks ==
    LET full == [p \in { CustomPath(CustomDir, id) : id \in StoreIds } |->
                    IF p = CustomPath(CustomDir, NameA) THEN ImgB ELSE ImgA]
    IN  {full} \cup { [full EXCEPT ![CustomPath(CustomDir, id)] = NoImage] :
                        id \in StoreIds }

\* imread(path)
Imread(path) == IF path \in DOMAIN disk THEN disk[path] ELSE NoImage

\* the feature type each matcher with a <feature_type> argument accepts
KnownType(program) ==
    IF program = "find_matches" THEN "baseline"
    ELSE IF program = "find_matcheshisto" THEN "rg_histogram"
    ELSE "none"

MatchInit ==
    /\ prog \in MatchProgs
    /\ numMatches \in -1..(MaxRows + 1)
    /\ fileOk \in BOOLEAN
    /\ storeFile \in IF fileOk THEN StoreFiles(prog, MaxRows) ELSE {<<>>}
    /\ \/ /\ prog \in ImageProgs
          /\ targetFile = TargetPath
          /\ imageDir = <<>>
          /\ \E image \in {ImgA, ImgB, NoImage} : disk = (TargetPath :> image)
          /\ featureType \in {KnownType(prog)} \cup
                 (IF KnownType(prog) # "none" /\ disk[TargetPath] = ImgA
                  THEN {"other"} ELSE {})
          /\ pc = "start"
       \/ /\ prog = "findmatcheswithdeepnetwork"
          /\ targetFile \in {<<120, Slash>> \o Pic0893, NameA}
          /\ imageDir = <<>>
          /\ disk = <<>>
          /\ featureType = "none"
          /\ pc = "read"
       \/ /\ prog = "custom_design"
          /\ targetFile = <<>>
          /\ imageDir = CustomDir
          /\ disk \in CustomDisks
          /\ featureType = "none"
          /\ pc = "read"
    /\ query = 1
    /\ lineNo = 0
    /\ features = <<>>
    /\ target = <<>>
    /\ distances = <<>>
    /\ shown = <<>>
    /\ log = <<>>
    /\ exitCode = -1
    /\ PatchIdle
    /\ ExtractIdle
    /\ CallIdle

\* the arguments and the files, which a run only reads
inputs == <<prog, targetFile, featureType, imageDir, numMatches, fileOk,
            storeFile, disk>>

\* return code from main
Exit(code) == pc' = "exit" /\ exitCode' = code

\* an exception nothing catches: std::terminate
Abort == Exit(134)

Logged(msg) == log' = Append(log, <<query, msg>>)

\* imread(targetImageFile) gives an empty Mat: return 1
MTargetUnreadable ==
    /\ pc = "start"
    /\ IsEmpty(Imread(targetFile))
    /\ Logged("Could not open target image")
    /\ Exit(1)
    /\ UNCHANGED <<inputs, query, lineNo, features, target, distances, shown,
                   pvars, xvars, cvars>>

\* find_matches, find_matcheshisto: a feature type other than the known one
MUnknownType ==
    /\ pc = "start"
    /\ ~IsEmpty(Imread(targetFile))
    /\ featureType # KnownType(prog)
    /\ Logged("Unknown feature type")
    /\ Exit(1)
    /\ UNCHANGED <<inputs, query, lineNo, features, target, distances, shown,
                   pvars, xvars, cvars>>

\* the target's representation, as each program computes it from the image
TargetOf(program, image) ==
    IF program = "find_matches" THEN computeBaselineFeatureVector(image, 0)
    ELSE IF program = "find_matcheshisto" THEN HistoTarget(image)
    ELSE IF program = "find_matchesmulti" THEN MultiTarget(image)
    ELSE ColourTextureTarget(image)

MTarget ==
    /\ pc = "start"
    /\ ~IsEmpty(Imread(targetFile))
    /\ featureType = KnownType(prog)
    /\ target' = TargetOf(prog, Imread(targetFile))
    /\ pc' = IF prog \in StreamProgs THEN "open" ELSE "read"
    /\ UNCHANGED <<inputs, query, lineNo, features, distances, shown, log,
                   exitCode, pvars, xvars, cvars>>

\* stream matchers: ifstream inFile(featureFile) fails: return 1
MOpenFail ==
    /\ pc = "open"
    /\ ~fileOk
    /\ Logged("Could not open feature file")
    /\ Exit(1)
    /\ UNCHANGED <<inputs, query, lineNo, features, target, distances, shown,
                   pvars, xvars, cvars>>

MOpen ==
    /\ pc = "open"
    /\ fileOk
    /\ pc' = "rows"
    /\ UNCHANGED <<inputs, query, lineNo, features, target, distances, shown, log,
                   exitCode, pvars, xvars, cvars>>

\* the store line the read loop is at
CurLine == storeFile[lineNo + 1]

\* whether parsing the line throws in the program's read loop
LineThrows(program, line) ==
    IF program = "find_matchesmulti" THEN MultiThrows(line, ColourBins)
    ELSE ParseThrows(line)

\* the score a stream matcher gives the line
StreamScore(program, tgt, line) ==
    IF program = "find_matches" THEN computeSSD(tgt, ParseVector(line))
    ELSE IF program = "find_matcheshisto" THEN HistoScore(tgt, ParseVector(line))
    ELSE MultiScore(tgt, line)

\* stream matchers: one pass of while (getline(inFile, line)): the line is
\* parsed and scored and (score, filename) is pushed
MRow ==
    /\ pc = "rows"
    /\ lineNo < Len(storeFile)
    /\ ~LineThrows(prog, CurLine)
    /\ distances' = Append(distances, <<StreamScore(prog, target, CurLine), CurLine.id>>)
    /\ lineNo' = lineNo + 1
    /\ UNCHANGED <<inputs, pc, query, features, target, shown, log, exitCode,
                   pvars, xvars, cvars>>

\* stof throws std::invalid_argument on a field of the line: the run is
\* aborted, in the stream matchers and in the readers alike
MRowThrows ==
    /\ pc \in {"rows", "reading"}
    /\ lineNo < Len(storeFile)
    /\ LineThrows(prog, CurLine)
    /\ Abort
    /\ UNCHANGED <<inputs, query, lineNo, features, target, distances, shown, log,
                   pvars, xvars, cvars>>

\* stream matchers: getline fails at the end of the file; inFile.close()
MRowsDone ==
    /\ pc = "rows"
    /\ lineNo = Len(storeFile)
    /\ pc' = "sort"
    /\ UNCHANGED <<inputs, query, lineNo, features, target, distances, shown, log,
                   exitCode, pvars, xvars, cvars>>

\* where a reader program goes once the store is in features
AfterRead(program) ==
    IF program = "find_matchescolortexture" THEN "score"
    ELSE IF program = "findmatcheswithdeepnetwork" THEN "lookup"
    ELSE "qstart"

\* readFeatureVectorsFromFile / readHistogramFeaturesFromFile: the file cannot
\* be opened; the error is logged and the empty vector is returned
MReadOpenFail ==
    /\ pc = "read"
    /\ ~fileOk
    /\ Logged("Could not open feature file")
    /\ features' = <<>>
    /\ lineNo' = 0
    /\ pc' = AfterRead(prog)
    /\ UNCHANGED <<inputs, query, target, distances, shown, exitCode, pvars, xvars, cvars>>

MReadOpen ==
    /\ pc = "read"
    /\ fileOk
    /\ pc' = "reading"
    /\ UNCHANGED <<inputs, query, lineNo, features, target, distances, shown, log,
                   exitCode, pvars, xvars, cvars>>

\* one pass of the reader's loop: features.push_back(filename, featureVector)
MReadRow ==
    /\ pc = "reading"
    /\ lineNo < Len(storeFile)
    /\ ~LineThrows(prog, CurLine)
    /\ features' = Append(features, <<CurLine.id, ParseVector(CurLine)>>)
    /\ lineNo' = lineNo + 1
    /\ UNCHANGED <<inputs, pc, query, target, distances, shown, log, exitCode,
                   pvars, xvars, cvars>>

\* the reader returns features
MReadDone ==
    /\ pc = "reading"
    /\ lineNo = Len(storeFile)
    /\ lineNo' = 0
    /\ pc' = AfterRead(prog)
    /\ UNCHANGED <<inputs, query, features, target, distances, shown, log,
                   exitCode, pvars, xvars, cvars>>

\* fs::path(targetImageFile).filename().string()
targetImageBaseName ==
    IF prog = "custom_design" THEN Basename(CustomTarget(query))
    ELSE Basename(targetFile)

\* the loop that copies the vector of the first record named like the target;
\* the vector stays empty when there is none
LookupVector(feats, baseName) ==
    IF \E i \in 1..Len(feats) : feats[i][1] = baseName
    THEN feats[CHOOSE i \in 1..Len(feats) :
                   /\ feats[i][1] = baseName
                   /\ \A j \in 1..(i - 1) : feats[j][1] # baseName][2]
    ELSE <<>>

\* a return from findTopMatches that would end the run instead of handing
\* control back to main for the next target
EndRun ==
    /\ Exit(1)
    /\ UNCHANGED query
    /\ distances' = <<>>
    /\ target' = <<>>
    /\ lineNo' = 0

\* a list of distances that outlives the call: the next target's scores
\* would be pushed after those of the first
EndQueryKeepsScores ==
    /\ IF query = 1
       THEN pc' = "qstart" /\ query' = 2 /\ UNCHANGED exitCode
       ELSE Exit(0) /\ UNCHANGED query
    /\ UNCHANGED distances
    /\ target' = <<>>
    /\ lineNo' = 0

\* custom_design: findTopMatches returns; main calls it for the next target
\* or returns 0.  The list of distances is local to the call
EndQuery ==
    /\ IF query = 1
       THEN pc' = "qstart" /\ query' = 2 /\ UNCHANGED exitCode
       ELSE Exit(0) /\ UNCHANGED query
    /\ distances' = <<>>
    /\ target' = <<>>
    /\ lineNo' = 0

\* custom_design: imread(imageDir + "/" + targetImageBaseName) is empty
CTargetUnreadable ==
    /\ pc = "qstart"
    /\ IsEmpty(Imread(CustomPath(imageDir, targetImageBaseName)))
    /\ Logged("Could not open target image")
    /\ EndQuery
    /\ UNCHANGED <<inputs, features, shown, pvars, xvars, cvars>>

\* custom_design: the target's colour and texture histograms
CTarget ==
    /\ pc = "qstart"
    /\ ~IsEmpty(Imread(CustomPath(imageDir, targetImageBaseName)))
    /\ target' = CustomHists(Imread(CustomPath(imageDir, targetImageBaseName)))
                     \o << <<>> >>
    /\ pc' = "qlookup"
    /\ UNCHANGED <<inputs, query, lineNo, features, distances, shown, log,
                   exitCode, pvars, xvars, cvars>>

\* the target's vector is found in the store
MLookupFound ==
    /\ pc \in {"lookup", "qlookup"}
    /\ LookupVector(features, targetImageBaseName) # <<>>
    /\ target' = IF prog = "custom_design"
                 THEN <<target[1], target[2], LookupVector(features, targetImageBaseName)>>
                 ELSE LookupVector(features, targetImageBaseName)
    /\ pc' = "score"
    /\ lineNo' = 0
    /\ UNCHANGED <<inputs, query, features, distances, shown, log, exitCode,
                   pvars, xvars, cvars>>

\* targetFeatureVector.empty(): findmatcheswithdeepnetwork returns 1,
\* findTopMatches of custom_design returns
MLookupNotFound ==
    /\ pc \in {"lookup", "qlookup"}
    /\ LookupVector(features, targetImageBaseName) = <<>>
    /\ Logged("Could not find feature vector for target image")
    /\ IF prog = "custom_design"
       THEN EndQuery
       ELSE Exit(1) /\ UNCHANGED <<query, distances, target, lineNo>>
    /\ UNCHANGED <<inputs, features, shown, pvars, xvars, cvars>>

\* the record the scoring loop is at
CurRecord == features[lineNo + 1]

\* custom_design: imread(imageDir + "/" + filename) of that record
CurImage == Imread(CustomPath(imageDir, CurRecord[1]))

\* the score a reader program gives the record
RecordScore(program, tgt, record, image) ==
    IF program = "find_matchescolortexture" THEN ColourTextureScore(tgt, record[2])
    ELSE IF program = "findmatcheswithdeepnetwork"
    THEN computeCosineDistance(tgt, record[2])
    ELSE LET hists == CustomHists(image)
         IN  computeCombinedDistance(tgt[1], hists[1], tgt[2], hists[2],
                                     tgt[3], record[2])

\* one pass of for (const auto &feature : features): the record is scored and
\* (score, filename) is pushed
MScore ==
    /\ pc = "score"
    /\ lineNo < Len(features)
    /\ prog = "custom_design" => ~IsEmpty(CurImage)
    /\ distances' = Append(distances,
                           <<RecordScore(prog, target, CurRecord, CurImage), CurRecord[1]>>)
    /\ lineNo' = lineNo + 1
    /\ UNCHANGED <<inputs, pc, query, features, target, shown, log, exitCode,
                   pvars, xvars, cvars>>

\* custom_design: the record's image cannot be read; the record is passed over
CSkipImage ==
    /\ pc = "score"
    /\ lineNo < Len(features)
    /\ prog = "custom_design"
    /\ IsEmpty(CurImage)
    /\ Logged("Could not open image")
    /\ lineNo' = lineNo + 1
    /\ UNCHANGED <<inputs, pc, query, features, target, distances, shown, exitCode,
                   pvars, xvars, cvars>>

MScoreDone ==
    /\ pc = "score"
    /\ lineNo = Len(features)
    /\ pc' = "sort"
    /\ UNCHANGED <<inputs, query, lineNo, features, target, distances, shown, log,
                   exitCode, pvars, xvars, cvars>>

\* sort(distances.begin(), distances.end() [, greater<pair<float, string>>()])
MSort ==
    /\ pc = "sort"
    /\ \E sorted \in SortOutcomes(prog, distances) : distances' = sorted
    /\ pc' = "report"
    /\ UNCHANGED <<inputs, query, lineNo, features, target, shown, log, exitCode,
                   pvars, xvars, cvars>>

\* a list printed to cout
Shown(part, list) == [q |-> query, part |-> part, list |-> list]

\* "Top N matches:" and the loop printing the first entries; every program
\* but custom_design then returns 0
MReport ==
    /\ pc = "report"
    /\ shown' = Append(shown, Shown("top", TopPrinted(distances, numMatches)))
    /\ IF prog = "custom_design"
       THEN pc' = "least" /\ UNCHANGED exitCode
       ELSE Exit(0)
    /\ UNCHANGED <<inputs, query, lineNo, features, target, distances, log,
                   pvars, xvars, cvars>>

\* custom_design: "Some of the least similar results" and the loop printing
\* from the end of the list
CLeast ==
    /\ pc = "least"
    /\ shown' = Append(shown, Shown("least", LeastPrinted(distances, numMatches)))
    /\ pc' = "qend"
    /\ UNCHANGED <<inputs, query, lineNo, features, target, distances, log,
                   exitCode, pvars, xvars, cvars>>

\* custom_design: findTopMatches returns after its two reports
CReturn ==
    /\ pc = "qend"
    /\ EndQuery
    /\ UNCHANGED <<inputs, features, shown, log, pvars, xvars, cvars>>

Next ==
    \/ MTargetUnreadable
    \/ MUnknownType
    \/ MTarget
    \/ MOpenFail
    \/ MOpen
    \/ MRow
    \/ MRowThrows
    \/ MRowsDone
    \/ MReadOpenFail
    \/ MReadOpen
    \/ MReadRow
    \/ MReadDone
    \/ CTargetUnreadable
    \/ CTarget
    \/ MLookupFound
    \/ MLookupNotFound
    \/ MScore
    \/ CSkipImage
    \/ MScoreDone
    \/ MSort
    \/ MReport
    \/ CLeast
    \/ CReturn

Spec == MatchInit /\ [][Next]_vars

(***************************************************************************)
(* Exact sums of floats.  A wide number <<hi, lo>> is the non-negative     *)
(* value (hi * 2^24 + lo) * 2^-48 with 0 <= lo < 2^24: every float from    *)
(* 2^-25 up to 64 is one, and so is every sum of a few of them.            *)
(***************************************************************************)
Limb == 2^MantissaBits

WideFrac == 2 * MantissaBits

WideZero == <<0, 0>>

WideOne == <<Limb, 0>>

\* the wide number of a float x with x = 0 or 2^-25 <= x < 64
WideOf(x) ==
    IF B32IsZero(x) THEN WideZero
    ELSE LET sh == x[3] + WideFrac
         IN  IF sh >= 24 THEN <<x[2] * 2^(sh - 24), 0>>
             ELSE <<x[2] \div 2^(24 - sh), (x[2] % 2^(24 - sh)) * 2^sh>>

WideAdd(a, b) ==
    <<a[1] + b[1] + ((a[2] + b[2]) \div Limb), (a[2] + b[2]) % Limb>>

\* k * a for 0 <= k < 128
WideScale(a, k) == <<a[1] * k + ((a[2] * k) \div Limb), (a[2] * k) % Limb>>

WideLeq(a, b) == a[1] < b[1] \/ (a[1] = b[1] /\ a[2] <= b[2])

\* |a - b|
WideDist(a, b) ==
    LET big == IF WideLeq(a, b) THEN b ELSE a
        small == IF WideLeq(a, b) THEN a ELSE b
    IN  IF big[2] >= small[2] THEN <<big[1] - small[1], big[2] - small[2]>>
        ELSE <<big[1] - small[1] - 1, big[2] + Limb - small[2]>>

\* wide[1] + ... + wide[n]
RECURSIVE WideSum(_, _)
WideSum(wide, n) == IF n = 0 THEN WideZero ELSE WideAdd(WideSum(wide, n - 1), wide[n])

\* the float nearest to a wide number below 128
WideRound(a) == RoundPack(1, a[1] * 64 + (a[2] \div 2^18), -30, a[2] % 2^18 # 0)

(***************************************************************************)
(* The histogram functions on cv::Mat of CV_32F, in binary32.  A Mat is a  *)
(* reference to a buffer; heap[b] is the content of buffer b.              *)
(***************************************************************************)
\* hist.copyTo(histNorm): a buffer of histNorm's own, filled from hist
CopyTo(heap, hist) == Append(heap, heap[hist])

\* sum(hist)[0] for a histogram of counts: the counts add up exactly
RECURSIVE SumCounts(_, _)
SumCounts(hist, n) == IF n = 0 THEN B32Zero ELSE B32Add(SumCounts(hist, n - 1), hist[n])

\* histNorm /= s is histNorm.convertTo(histNorm, -1, 1. / s): the scale 1. / s
\* is a double; the conversion of floats multiplies by the scale cut to a
\* float (single), or multiplies in double and rounds the product, which for
\* counts gives the float nearest to the quotient
Scaled(x, s, single) ==
    IF single THEN B32Mul(x, B32Div(B32FromInt(1), s)) ELSE B32Div(x, s)

\* normalizeHistogram with histNorm sharing the buffer of hist, as
\* Mat histNorm = hist would
normalizeHistogramShared(heap, hist, single) ==
    LET s == SumCounts(heap[hist], Len(heap[hist]))
    IN  [heap |-> [heap EXCEPT ![hist] =
                      [k \in 1..Len(heap[hist]) |-> Scaled(heap[hist][k], s, single)]],
         ret |-> hist]

\* normalizeHistogram(hist): the heap after the call and the Mat returned
normalizeHistogramMat(heap, hist, single) ==
    LET copied == CopyTo(heap, hist)
        histNorm == Len(copied)
        s == SumCounts(heap[hist], Len(heap[hist]))
    IN  [heap |-> [copied EXCEPT ![histNorm] =
                      [k \in 1..Len(copied[histNorm]) |->
                          Scaled(copied[histNorm][k], s, single)]],
         ret |-> histNorm]

\* min(hist1, hist2), element by element
MinMat(hist1, hist2) == [k \in 1..Len(hist1) |-> B32Min(hist1[k], hist2[k])]

\* sum(m)[0] returned as a float: cv::sum adds in double, where the sum of a
\* short histogram of floats is exact, and the return rounds it to a float
SumMat(m) == WideRound(WideSum([k \in 1..Len(m) |-> WideOf(m[k])], Len(m)))

\* the sum of the larger elements instead of the smaller ones
computeHistogramUnionMat(hist1, hist2) ==
    SumMat([k \in 1..Len(hist1) |->
               IF B32Less(hist1[k], hist2[k]) THEN hist2[k] ELSE hist1[k]])

\* computeHistogramIntersection(hist1, hist2)
computeHistogramIntersectionMat(hist1, hist2) == SumMat(MinMat(hist1, hist2))

\* the loop of computeCosineDistance after n rounds:
\* acc += a[i] * b[i], rounded after the product and after the sum
RECURSIVE DotLoop(_, _, _)
DotLoop(a, b, n) ==
    IF n = 0 THEN B32Zero ELSE B32Add(DotLoop(a, b, n - 1), B32Mul(a[n], b[n]))

\* computeCosineDistance dividing by the square of the first norm
computeCosineDistanceOneNorm(v1, v2) ==
    LET dotProduct == DotLoop(v1, v2, Len(v1))
        normV1 == B32Sqrt(DotLoop(v1, v1, Len(v1)))
    IN  B32Sub(B32FromInt(1), B32Div(dotProduct, B32Mul(normV1, normV1)))

\* computeCosineDistance(v1, v2) on vector<float>
computeCosineDistanceFloat(v1, v2) ==
    LET dotProduct == DotLoop(v1, v2, Len(v1))
        normV1 == B32Sqrt(DotLoop(v1, v1, Len(v1)))
        normV2 == B32Sqrt(DotLoop(v2, v2, Len(v1)))
    IN  B32Sub(B32FromInt(1), B32Div(dotProduct, B32Mul(normV1, normV2)))

\* vec[i] of a vector<float>, unchecked: an index past the end reads
\* whatever lies behind the buffer
ReadUnchecked(vec, i, garbage) == IF i <= Len(vec) THEN vec[i] ELSE garbage

\* the loop of computeSSD after n rounds: diff = vec1[i] - vec2[i] and
\* ssd += diff * diff
RECURSIVE SSDLoop(_, _, _, _)
SSDLoop(vec1, vec2, n, garbage) ==
    IF n = 0 THEN B32Zero
    ELSE LET diff == B32Sub(vec1[n], ReadUnchecked(vec2, n, garbage))
         IN  B32Add(SSDLoop(vec1, vec2, n - 1, garbage), B32Mul(diff, diff))

\* computeSSD(vec1, vec2) on vector<float>: the value returned and the
\* indices at which the loop read vec2 past its end
computeSSDFloat(vec1, vec2, garbage) ==
    [ssd |-> SSDLoop(vec1, vec2, Len(vec1), garbage),
     outside |-> { i \in 0..(Len(vec1) - 1) : i >= Len(vec2) },
     scored |-> TRUE]

\* the values of the target's representation in the order in which the
\* index-building program writes them
TargetValues(program, image) ==
    LET tgt == TargetOf(program, image)
    IN  IF program = "find_matcheshisto" THEN Flatten2(tgt, HistoBins)
        ELSE IF program = "find_matchesmulti"
        THEN Flatten3(tgt[1], ColourBins) \o Flatten3(tgt[2], ColourBins)
        ELSE tgt

\* an image is indexed by the extraction program and then queried as target
\* by its matcher: the target's values, the values computed for the line,
\* the values read back from the line and the score of the line
queryOwnRecord(program, image) ==
    LET line == ImageLine(program, NameA, image)
        tgt == TargetOf(program, image)
    IN  [target |-> TargetValues(program, image),
         computed |-> ExtractVector(ExtractorOf(program), image, 0),
         record |-> ParseVector(line),
         score |-> IF program \in StreamProgs THEN StreamScore(program, tgt, line)
                   ELSE ColourTextureScore(tgt, ParseVector(line))]

\* findmatcheswithdeepnetwork on the features read from a store: the
\* target is looked up, every record is scored and pushed, the list is
\* sorted and its first numMatches entries are printed.  The outputs the
\* run can have: one, unless the sort is handed a comparison that is no
\* strict weak ordering
rankStore(feats, baseName, k) ==
    LET targetFeatureVector == LookupVector(feats, baseName)
        scores == [n \in 1..Len(feats) |->
                         <<computeCosineDistance(targetFeatureVector, feats[n][2]),
                           feats[n][1]>>]
    IN  IF targetFeatureVector = <<>>
        THEN {[notFound |-> TRUE, list |-> <<>>]}
        ELSE { [notFound |-> FALSE, list |-> TopPrinted(sorted, k)] :
                 sorted \in SortOutcomes("findmatcheswithdeepnetwork", scores) }

\* the float literal 0.4f, 0.3f, ...: the float nearest to tenths / 10
Tenths(tenths) == B32Div(B32FromInt(tenths), B32FromInt(10))

\* how the compiler evaluates a * b + c * d + e * f: "off" rounds every
\* product and every sum; "left" and "right" contract each sum with one of
\* its products into fmaf, the first sum with its left or its right product
Contractions == {"off", "left", "right"}

\* the weighted sum with the weights of color and of texture exchanged
WeightedSumSwapped(colorDistance, textureDistance, deepDistance, contract) ==
    LET color == B32Mul(Tenths(3), colorDistance)
        texture == B32Mul(Tenths(4), textureDistance)
        first == IF contract = "off" THEN B32Add(color, texture)
                 ELSE IF contract = "left" THEN B32Fma(Tenths(3), colorDistance, texture)
                 ELSE B32Fma(Tenths(4), textureDistance, color)
    IN  IF contract = "off" THEN B32Add(first, B32Mul(Tenths(3), deepDistance))
        ELSE B32Fma(Tenths(3), deepDistance, first)

\* 0.4f * colorDistance + 0.3f * textureDistance + 0.3f * deepDistance
WeightedSum(colorDistance, textureDistance, deepDistance, contract) ==
    LET color == B32Mul(Tenths(4), colorDistance)
        texture == B32Mul(Tenths(3), textureDistance)
        first == IF contract = "off" THEN B32Add(color, texture)
                 ELSE IF contract = "left" THEN B32Fma(Tenths(4), colorDistance, texture)
                 ELSE B32Fma(Tenths(3), textureDistance, color)
    IN  IF contract = "off" THEN B32Add(first, B32Mul(Tenths(3), deepDistance))
        ELSE B32Fma(Tenths(3), deepDistance, first)

\* computeCombinedDistance on Mats and vector<float>
computeCombinedDistanceFloat(colorHist1, colorHist2, textureHist1, textureHist2, deepFeature1, deepFeature2, contract) ==
    LET colorDistance ==
            B32Sub(B32FromInt(1), computeHistogramIntersectionMat(colorHist1, colorHist2))
        textureDistance ==
            B32Sub(B32FromInt(1), computeHistogramIntersectionMat(textureHist1, textureHist2))
        deepDistance == computeCosineDistanceFloat(deepFeature1, deepFeature2)
    IN  WeightedSum(colorDistance, textureDistance, deepDistance, contract)

\* the records an extraction pass holds, written line by line and read back
\* by the loop of readFeatureVectorsFromFile (and of find_matches): threw
\* tells that stof threw on a field, which nothing catches
writeThenRead(records) ==
    LET lines == [n \in 1..Len(records) |-> ReadLine(WriteLine(records[n][1], records[n][2]))]
    IN  IF \E n \in 1..Len(lines) : \E k \in 1..Len(lines[n].vals) : StofThrows(lines[n].vals[k])
        THEN [threw |-> TRUE, features |-> <<>>]
        ELSE [threw |-> FALSE,
              features |-> [n \in 1..Len(lines) |->
                               <<lines[n].id,
                                 [k \in 1..Len(lines[n].vals) |-> Stof(lines[n].vals[k])]>>]]

(***************************************************************************)
(* SpecCall: one call of one function, on arguments drawn from bounded     *)
(* sets.                                                                   *)
(***************************************************************************)
\* the largest number of bins per axis of a call
MaxBins == 3

White == <<255, 255, 255>>

Blue == <<255, 0, 0>>

\* the colours of the images of a call, as B,G,R
CallColours == {Red, Black, Grey, White, Blue}

\* small images of every kind, and uniform images of 4096 x 4096 and of
\* 4097 x 4096 pixels
CallImages ==
         { Img(r, c, "uniform", t, t) : r \in 1..3, c \in 1..2, t \in CallColours }
    \cup { Img(r, c, "halves", t, b) : r \in 1..3, c \in 1..2,
                                       t \in {Red, White}, b \in {Black, Blue} }
    \cup { Img(r, c, "coord", Black, Black) : r \in 1..3, c \in 1..2 }
    \cup { Img(r, 4096, "uniform", t, t) : r \in {4096, 4097}, t \in {Red, Grey} }

\* the longest histogram or vector of a call
MaxLen == 3

\* the largest count of a bucket of a call
MaxCount == 6

\* the histograms of counts of a call
CountHistograms == UNION { [1..n -> 0..MaxCount] : n \in 1..MaxLen }

\* the CV_32F Mat of a histogram of counts
MatOf(counts) == [k \in 1..Len(counts) |-> B32FromInt(counts[k])]

\* the length of the two histograms of an intersection
PairLen == 2

\* normalizeHistogram(hist) as a value
Normalize(counts, single) ==
    LET call == normalizeHistogramMat(<<MatOf(counts)>>, 1, single)
    IN  call.heap[call.ret]

\* the normalised histograms of one build
NormalizedHistograms(single) ==
    { Normalize(counts, single) :
        counts \in { c \in [1..PairLen -> 0..MaxCount] : SumInt(c, 1, PairLen) > 0 } }

\* the largest element of a vector of a call
MaxElem == 3

\* the vectors of n floats of a call
FloatVectors(n) == { MatOf(v) : v \in [1..n -> -1..MaxElem] }

\* the normalised histograms of the records of a combined distance
CombinedHistograms(single) ==
    { Normalize(counts, single) : counts \in {<<1, 1>>, <<1, 0>>, <<1, 2>>} }

\* their deep-network vectors
CombinedVectors == { MatOf(v) : v \in {<<1, 1>>, <<3, 4>>, <<4, 3>>} }

\* the arguments of computeCombinedDistance: the histograms and the vector of
\* the target and of a record
CombinedInputs ==
    UNION { [colorHist1 : CombinedHistograms(single), colorHist2 : CombinedHistograms(single),
             textureHist1 : CombinedHistograms(single), textureHist2 : CombinedHistograms(single),
             deepFeature1 : CombinedVectors, deepFeature2 : CombinedVectors] :
               single \in BOOLEAN }

\* sub-distances 0.0, 0.1, ..., 1.0, in tenths
SubDistances == 0..10

\* the most records of a store written and read back
MaxRecords == 2

\* file names: "a", "b.7", "a,b" and "a,1"
RecordNames == {<<97>>, <<98, 46, 55>>, <<97, Comma, 98>>, <<97, Comma, 49>>}

\* vectors of pixel values, of a normalised histogram, of network outputs
RecordVectors ==
    {<<F(255), F(0), F(17)>>, <<Norm(1, 3), Norm(2, 3)>>, <<Norm(-5, 4), F(0)>>, <<>>}

\* the records of an extraction pass
RecordLists ==
    UNION { [1..n -> RecordNames \X RecordVectors] : n \in 0..MaxRecords }

\* the images that are indexed and then queried as target: find_matches
\* takes images of at least 7x7 pixels, the others small images of every kind
OwnImages(program) ==
    IF program = "find_matches"
    THEN {ImgA, ImgB, Img(8, 8, "coord", Grey, Grey)}
    ELSE { i \in CallImages : i.rows * i.cols <= MaxCount }

\* the target vector and the record vector handed to computeSSD, each of
\* any length up to PairLen
SSDVectors == UNION { { MatOf(v) : v \in [1..n -> 0..1] } : n \in 0..PairLen }

\* what a read behind a vector's buffer may find
GarbageFloats == {B32Zero, B32FromInt(MaxElem)}

\* the features a target is looked up in: at most MaxRecords records named
\* "a" or "b", each with a vector of any length from 0
LookupFeatures ==
    UNION { [1..n -> {<<97>>, <<98>>} \X SSDVectors] : n \in 0..MaxRecords }

\* the most rows of a store that is ranked
RankRows == 3

\* the stores of findmatcheswithdeepnetwork that are ranked: at most RankRows
\* records with distinct names "a", "b", ..., each with a deep-network vector
RankStores ==
    UNION { { f \in [1..n -> Names(RankRows) \X DeepVecs] :
                \A i, j \in 1..n : i # j => f[i][1] # f[j][1] } : n \in 0..RankRows }

\* the most scored records of a query whose report loops are run
MaxScored == 3

CallFunctions ==
    {"computeRGBHistogram", "halves", "normalizeHistogram", "computeHistogramIntersection",
     "computeCosineDistance", "computeCombinedDistance", "WeightedSum", "writeThenRead",
     "computeSSD", "queryOwnRecord", "lookupTarget", "rankStore",
     "reportLoops"}

\* the arguments a call of fun may get
CallInputs(fun) ==
    IF fun = "computeRGBHistogram"
    THEN [image : CallImages, bins : 1..MaxBins]
    ELSE IF fun = "halves"
    THEN [image : CallImages, bins : {ColourBins}]
    ELSE IF fun = "normalizeHistogram"
    THEN [counts : CountHistograms]
    ELSE IF fun = "computeHistogramIntersection"
    THEN UNION { [hist1 : NormalizedHistograms(single), hist2 : NormalizedHistograms(single)] :
                    single \in BOOLEAN }
    ELSE IF fun = "computeCosineDistance"
    THEN UNION { [v1 : FloatVectors(n), v2 : FloatVectors(n)] : n \in 1..PairLen }
    ELSE IF fun = "computeCombinedDistance"
    THEN CombinedInputs
    ELSE IF fun = "WeightedSum"
    THEN [colorDistance : SubDistances, textureDistance : SubDistances,
          deepDistance : SubDistances]
    ELSE IF fun = "computeSSD"
    THEN [vec1 : SSDVectors, vec2 : SSDVectors]
    ELSE IF fun = "lookupTarget"
    THEN [features : LookupFeatures, targetImageBaseName : {<<97>>, <<98>>}]
    ELSE IF fun = "rankStore"
    THEN [features : RankStores, targetImageBaseName : Names(RankRows),
          numMatches : 0..RankRows]
    ELSE IF fun = "reportLoops"
    THEN [size : 0..MaxScored, numMatches : (-MaxScored - 1)..(MaxScored + 2)]
    ELSE IF fun = "queryOwnRecord"
    THEN UNION { [program : {p}, image : OwnImages(p)] : p \in ImageProgs }
    ELSE [records : RecordLists]

CallInit ==
    /\ cFun \in CallFunctions
    /\ cArgs \in CallInputs(cFun)
    /\ cPc = "call"
    /\ cRet = <<>>
    /\ cHeap = IF cFun = "normalizeHistogram" THEN <<MatOf(cArgs.counts)>> ELSE <<>>
    /\ PatchIdle
    /\ ExtractIdle
    /\ MatchIdle

\* the part of a call every function shares
Returns(fun, result) ==
    /\ cPc = "call"
    /\ cFun = fun
    /\ cRet' = result
    /\ cPc' = "returned"
    /\ UNCHANGED <<cFun, cArgs, cHeap, pvars, xvars, mvars>>

\* computeRGBHistogram(image, bins)
CallRGBHistogram ==
    Returns("computeRGBHistogram", computeRGBHistogram(cArgs.image, cArgs.bins))

\* the two region histograms of compute_featuresmulti and find_matchesmulti,
\* before they are normalised
CallHalves ==
    Returns("halves",
            [top |-> computeRGBHistogramRegion(cArgs.image, cArgs.bins, topHalf(cArgs.image)),
             bottom |-> computeRGBHistogramRegion(cArgs.image, cArgs.bins,
                                                  bottomHalf(cArgs.image))])

\* normalizeHistogram(hist) on the Mat of buffer 1
CallNormalize ==
    /\ cPc = "call"
    /\ cFun = "normalizeHistogram"
    /\ \E single \in BOOLEAN :
          LET call == normalizeHistogramMat(cHeap, 1, single)
          IN  cHeap' = call.heap /\ cRet' = call.ret
    /\ cPc' = "returned"
    /\ UNCHANGED <<cFun, cArgs, pvars, xvars, mvars>>

\* computeHistogramIntersection(hist1, hist2)
CallIntersection ==
    Returns("computeHistogramIntersection",
            computeHistogramIntersectionMat(cArgs.hist1, cArgs.hist2))

\* computeCosineDistance(v1, v2)
CallCosine ==
    Returns("computeCosineDistance", computeCosineDistanceFloat(cArgs.v1, cArgs.v2))

\* computeCombinedDistance(colorHist1, ..., deepFeature2)
CallCombined ==
    \E contract \in Contractions :
        Returns("computeCombinedDistance",
                computeCombinedDistanceFloat(cArgs.colorHist1, cArgs.colorHist2,
                                             cArgs.textureHist1, cArgs.textureHist2,
                                             cArgs.deepFeature1, cArgs.deepFeature2,
                                             contract))

\* the last statement of computeCombinedDistance on given sub-distances
CallWeightedSum ==
    \E contract \in Contractions :
        Returns("WeightedSum",
                WeightedSum(Tenths(cArgs.colorDistance), Tenths(cArgs.textureDistance),
                            Tenths(cArgs.deepDistance), contract))

\* the store is written by an extraction pass and read back by a matcher
CallWriteThenRead == Returns("writeThenRead", writeThenRead(cArgs.records))

\* computeSSD(targetFeatureVector, featureVector): the loop runs over the
\* indices of the target's vector whatever the length of the record's; a
\* read past the end finds garbage or faults
CallSSD ==
    \/ \E garbage \in GarbageFloats :
           Returns("computeSSD", computeSSDFloat(cArgs.vec1, cArgs.vec2, garbage))
    \/ /\ cFun = "computeSSD"
       /\ computeSSDFloat(cArgs.vec1, cArgs.vec2, B32Zero).outside # {}
       /\ Returns("computeSSD",
                  [computeSSDFloat(cArgs.vec1, cArgs.vec2, B32Zero) EXCEPT
                      !.ssd = B32NaN, !.scored = FALSE])

\* compute_* writes the line of an image and find_matches* scores it with
\* the same image as target
CallOwnRecord ==
    /\ cFun = "queryOwnRecord"
    /\ Returns("queryOwnRecord", queryOwnRecord(cArgs.program, cArgs.image))

\* the lookup of the target's vector in features, and the test
\* targetFeatureVector.empty() that follows it
CallLookup ==
    /\ cFun = "lookupTarget"
    /\ LET targetFeatureVector == LookupVector(cArgs.features, cArgs.targetImageBaseName)
       IN  Returns("lookupTarget",
                   [vector |-> targetFeatureVector,
                    notFound |-> targetFeatureVector = <<>>])

\* a run of findmatcheswithdeepnetwork from the features to the report
CallRank ==
    /\ cFun = "rankStore"
    /\ \E output \in rankStore(cArgs.features, cArgs.targetImageBaseName, cArgs.numMatches) :
           Returns("rankStore", output)

\* the two report loops of findTopMatches on a list of size distances: the
\* indices at which each reads the list, in the order of the iterations
CallLoops ==
    /\ cFun = "reportLoops"
    /\ Returns("reportLoops",
               [top |-> TopIndices(0, cArgs.numMatches, cArgs.size),
                least |-> LeastIndices(cArgs.size - 1, cArgs.numMatches, cArgs.size)])

CallNext ==
    \/ CallRGBHistogram
    \/ CallHalves
    \/ CallNormalize
    \/ CallIntersection
    \/ CallCosine
    \/ CallCombined
    \/ CallWeightedSum
    \/ CallWriteThenRead
    \/ CallSSD
    \/ CallOwnRecord
    \/ CallLookup
    \/ CallRank
    \/ CallLoops

SpecCall == CallInit /\ [][CallNext]_vars

(***************************************************************************)
(* Properties.                                                             *)
(***************************************************************************)
\* the lists of one kind printed for query q
ShownOf(q, part) == SelectSeq(shown, LAMBDA e : e.q = q /\ e.part = part)

\* the queries a run makes
Queries == IF prog = "custom_design" THEN {1, 2} ELSE {1}

\* the name query q looks up in the store
TargetName(q) ==
    IF prog = "custom_design" THEN CustomTarget(q) ELSE Basename(targetFile)

HasRecord(name) == \E n \in 1..Len(storeFile) : storeFile[n].id = name

\* custom_design finds the image of the target of query q
TargetReadable(q) ==
    prog = "custom_design" => ~IsEmpty(Imread(CustomPath(imageDir, CustomTarget(q))))

Malformed(token) == token.k # "num"

HasMalformedField ==
    \E n \in 1..Len(storeFile) :
        \E i \in 1..Len(storeFile[n].vals) : Malformed(storeFile[n].vals[i])

NotFoundMsg == "Could not find feature vector for target image"

Messages(q) == { log[n][2] : n \in { m \in 1..Len(log) : log[m][1] = q } }

\* C1: in the ranked list every matcher prints, any two entries whose scores
\* are exactly equal stand in ascending imageId order, under the ascending
\* and the descending sorts alike.
C1_TiesInAscendingId ==
    \A n \in 1..Len(shown) :
        shown[n].part = "top" =>
            \A i, j \in 1..Len(shown[n].list) :
                (i < j /\ FEq(shown[n].list[i][1], shown[n].list[j][1]))
                    => StrLess(shown[n].list[i][2], shown[n].list[j][2])

\* the runs C2 speaks of: K >= 0, a readable store of well-formed rows, a
\* usable target, and for the matchers that look the target up a store that
\* is empty or holds the target
C2_Run ==
    /\ numMatches >= 0
    /\ fileOk
    /\ ~HasMalformedField
    /\ prog \in ImageProgs =>
           ~IsEmpty(Imread(targetFile)) /\ featureType = KnownType(prog)
    /\ prog \in LookupProgs =>
           \A q \in Queries :
               TargetReadable(q) /\ (storeFile = <<>> \/ HasRecord(TargetName(q)))

\* C2: for a store of n >= 0 records and K >= 0, the best-match list is the
\* first min(K, n) entries of the fully sorted list of all n records, each
\* record at most once, and the run ends without error (so K >= n lists all
\* records, K = 0 or n = 0 an empty list).
C2_TopKIsSortedPrefix ==
    C2_Run =>
        /\ pc = "exit" =>
               /\ exitCode = 0
               /\ \A q \in Queries : Len(ShownOf(q, "top")) = 1
        /\ (shown # <<>> /\ (pc = "least" \/ (pc = "exit" /\ prog # "custom_design"))) =>
               LET list == shown[Len(shown)].list
                   n == Len(storeFile)
               IN  /\ Len(distances) = n
                   /\ { distances[i][2] : i \in 1..n } =
                          { storeFile[i].id : i \in 1..n }
                   /\ IsSorted(prog, distances)
                   /\ list = SubSeq(distances, 1, MinInt(numMatches, n))

\* C3: the least-similar report of custom_design is the last min(K, n)
\* entries of the sorted list of the n scored records: all n for K >= n,
\* exactly K for 0 < K < n.
C3_LeastIsLastK ==
    (pc = "qend" /\ numMatches >= 0) =>
        LET list == shown[Len(shown)].list
            n == Len(distances)
            m == MinInt(numMatches, n)
        IN  /\ shown[Len(shown)].part = "least"
            /\ Len(list) = m
            /\ \A j \in 1..m : list[j] = distances[n - j + 1]

\* C4: the imageId of every record an extraction pass writes is the basename
\* of the image's path, whatever the directory argument is.
C4_IdIsBasename ==
    \A n \in 1..Len(xFile) :
        \E i \in 1..Len(xEntries) :
            /\ xFile[n].id = Basename(EntryPath(xDir, xEntries[i].name))
            /\ xFile[n].id = xEntries[i].name

\* C5: with a store file that cannot be opened every matcher fails at once:
\* it scores nothing, prints no list and never goes on with an empty store.
C5_MissingStoreFailsAtOnce ==
    ~fileOk =>
        /\ shown = <<>>
        /\ distances = <<>>
        /\ pc \in {"start", "open", "read", "exit"}

\* C6: a run in which the output store cannot be opened ends with a
\* non-zero exit code.
C6_NoOutputIsNonZeroExit ==
    (xPc = "exit" /\ ~xOutOk) => xExit # 0

\* C7: with a malformed numeric field (empty, not a number, or a number
\* followed by more characters) anywhere in the store, the matcher reports
\* no ranked match: every list it prints is empty.
C7_MalformedFieldNoReport ==
    HasMalformedField => \A n \in 1..Len(shown) : shown[n].list = <<>>

\* query q is over and the run was not cut short by the store read
QueryOver(q) ==
    /\ prog \in LookupProgs
    /\ q \in Queries
    /\ exitCode # 134
    /\ pc = "exit" \/ query > q

\* what C8 says of a query whose target has no record
NotFoundOnlyThatQuery(q) ==
    /\ NotFoundMsg \in Messages(q)
    /\ ShownOf(q, "top") = <<>> /\ ShownOf(q, "least") = <<>>
    /\ (prog = "findmatcheswithdeepnetwork" /\ pc = "exit") =>
           exitCode = 1 /\ distances = <<>>
    /\ (prog = "custom_design" /\ pc = "exit") =>
           /\ exitCode = 0
           /\ \A r \in Queries \ {q} :
                  /\ Messages(r) # {} \/ ShownOf(r, "top") # <<>>
                  /\ (HasRecord(TargetName(r)) /\ TargetReadable(r)) =>
                         Len(ShownOf(r, "top")) = 1 /\ Len(ShownOf(r, "least")) = 1

C9_SmallImageFails ==
    (pPc # "call" /\ (pImage.rows < 7 \/ pImage.cols < 7)) =>
        pPc = "aborted" /\ pOutside = {}

\* C10: on an image of at least 7x7 pixels computeBaselineFeatureVector
\* returns 147 values: B, G, R of the 49 pixels of the 7x7 block around
\* (width / 2, height / 2), rows top to bottom and columns left to right;
\* on a uniform image of value v every value is v.
C10_CentreBlock ==
    (pPc = "returned" /\ pImage.rows >= 7 /\ pImage.cols >= 7) =>
        /\ Len(pVec) = 147
        /\ pOutside = {}
        /\ \A k \in 1..147 :
               LET p == (k - 1) \div 3
                   y == (pImage.rows \div 2) - 3 + (p \div 7)
                   x == (pImage.cols \div 2) - 3 + (p % 7)
               IN  /\ InBounds(pImage, y, x)
                   /\ pVec[k] = F(PixelAt(pImage, y, x)[((k - 1) % 3) + 1])
        /\ pImage.kind = "uniform" =>
               \A k \in 1..147 : pVec[k] = F(pImage.top[1])

\* the vector of an 8x8 image whose pixels all differ was returned
C10_Witness ==
    /\ pPc = "returned"
    /\ pImage.kind = "coord"
    /\ pImage.rows = 8 /\ pImage.cols = 8
    /\ Len(pVec) = 147

\* a call of fun has returned
Returned(fun) == cFun = fun /\ cPc = "returned"

\* the bucket a colour (R, G, B) is claimed to fall in, flattened
ClaimedBucket(colour, bins) ==
    LET r == MinInt((colour[3] * bins) \div 256, bins - 1)
        g == MinInt((colour[2] * bins) \div 256, bins - 1)
        b == MinInt((colour[1] * bins) \div 256, bins - 1)
    IN  (r * bins + g) * bins + b + 1

\* C11: for every bins >= 1 and every uniform w x h image, computeRGBHistogram
\* returns bins^3 counts of which exactly one is not zero, the one of the
\* bucket (min(floor(R*bins/256), bins-1), the same of G, the same of B), and
\* that count is w * h.
C11_UniformImageOneBucket ==
    (Returned("computeRGBHistogram") /\ cArgs.image.kind = "uniform") =>
        /\ Len(cRet) = cArgs.bins * cArgs.bins * cArgs.bins
        /\ \A k \in 1..Len(cRet) :
              cRet[k] = IF k = ClaimedBucket(cArgs.image.top, cArgs.bins)
                        THEN F(cArgs.image.cols * cArgs.image.rows)
                        ELSE F(0)

\* C12: for every height and width the top and the bottom half are disjoint
\* and every pixel row lies in exactly one of them, so that the counts of the
\* two region histograms add up to width * height.
C12_HalvesPartition ==
    Returned("halves") =>
        LET image == cArgs.image
            inTop(y) == topHalf(image).y <= y
                        /\ y < topHalf(image).y + topHalf(image).height
            inBottom(y) == bottomHalf(image).y <= y
                           /\ y < bottomHalf(image).y + bottomHalf(image).height
        IN  /\ \A y \in 0..(image.rows - 1) : inTop(y) # inBottom(y)
            /\ FAdd(SumF(cRet.top, 1, Len(cRet.top)),
                    SumF(cRet.bottom, 1, Len(cRet.bottom)))
                   = F(image.cols * image.rows)

\* the sum of the counts of a histogram
CountSum(counts) == SumInt(counts, 1, Len(counts))

\* the exact sum of the elements of a Mat
ExactSum(mat) == WideSum([k \in 1..Len(mat) |-> WideOf(mat[k])], Len(mat))

\* 2^-23, the distance from 1 to the next float, as a wide number
Epsilon == <<2, 0>>

\* the Mat a call of normalizeHistogram returned
Normalized == cHeap[cRet]

HistogramsOf(program, image) ==
    IF program = "compute_featuresmulti"
    THEN { computeRGBHistogramRegion(image, ColourBins, topHalf(image)),
           computeRGBHistogramRegion(image, ColourBins, bottomHalf(image)) }
    ELSE IF program = "compute_histo_features"
    THEN { computeRGChromaticityHistogram(image, HistoBins) }
    ELSE IF program = "compute_featurescolorandtexture"
    THEN { computeRGBHistogram(image, ColourBins), computeTextureHistogram(image, ColourBins) }
    ELSE {}

\* entry i of the directory is an image one of whose histograms is all zero
ZeroHistogramEntry(i) ==
    /\ xEntries[i].regular
    /\ ~IsEmpty(xEntries[i].image)
    /\ \E hist \in HistogramsOf(xProg, xEntries[i].image) :
          SumF(hist, 1, Len(hist)) = F(0)

\* C14: normalizeHistogram fails on an all-zero histogram instead of
\* returning a vector, and batch extraction skips the image: a warning is
\* logged, no record is written for it, and the remaining images are
\* processed.
C14_ZeroHistogramSkipped ==
    \A i \in 1..Len(xEntries) :
        (i <= xIdx /\ ZeroHistogramEntry(i)) =>
            /\ xLog # <<>>
            /\ \A n \in 1..Len(xFile) : xFile[n].id # EntryPath(xDir, xEntries[i].name)

B32One == B32FromInt(1)

\* 1 + 2^-23, the float next above 1
B32AboveOne == <<1, 2^(MantissaBits - 1) + 1, -(MantissaBits - 1)>>

\* 1 - 2^-24, the float next below 1
B32BelowOne == <<1, 2^MantissaBits - 1, -MantissaBits>>

\* x <= y
B32Leq(x, y) == x = y \/ B32Less(x, y)

B32Epsilon == <<1, 2^(MantissaBits - 1), -2 * (MantissaBits - 1)>>

\* the norm of v is not zero
NonZero(v) == \E k \in 1..Len(v) : ~B32IsZero(v[k])

B32Abs(x) == <<x[1] * x[1], x[2], x[3]>>

\* |x - y| <= tol
B32Near(x, y, tol) == B32Leq(B32Abs(B32Sub(x, y)), tol)

\* the weighted sum as the claim writes it, every operation a float operation
ClaimedWeightedSum(colorDistance, textureDistance, deepDistance) ==
    B32Add(B32Add(B32Mul(Tenths(4), colorDistance), B32Mul(Tenths(3), textureDistance)),
           B32Mul(Tenths(3), deepDistance))

\* the float nearest to n / 100
Hundredths(n) == B32Div(B32FromInt(n), B32FromInt(100))

\* one float step at 0.29: 2^-25
StepAtScenario == <<1, 2^(MantissaBits - 1), -2 * MantissaBits>>

\* C19: computeCombinedDistance returns 0.4 * colorDistance
\* + 0.3 * textureDistance + 0.3 * deepDistance, with colorDistance and
\* textureDistance 1 - the intersection of the normalised histograms and
\* deepDistance the cosine distance of the deep vectors (the float value of
\* that expression, whichever way the build rounds it: within 2^-23); for
\* the sub-distances (0.5, 0.2, 0.1) the result is 0.29 (the float nearest
\* to 0.29 or the next one), and for sub-distances of whole tenths it is
\* 0.4 * c + 0.3 * t + 0.3 * d within 2^-23.
C19_WeightedCombination ==
    /\ Returned("computeCombinedDistance") =>
          B32Near(cRet,
                  ClaimedWeightedSum(
                      B32Sub(B32One, computeHistogramIntersectionMat(cArgs.colorHist1,
                                                                     cArgs.colorHist2)),
                      B32Sub(B32One, computeHistogramIntersectionMat(cArgs.textureHist1,
                                                                     cArgs.textureHist2)),
                      computeCosineDistanceFloat(cArgs.deepFeature1, cArgs.deepFeature2)),
                  B32Epsilon)
    /\ Returned("WeightedSum") =>
          /\ B32Near(cRet,
                     Hundredths(4 * cArgs.colorDistance + 3 * cArgs.textureDistance
                                    + 3 * cArgs.deepDistance),
                     B32Epsilon)
          /\ (cArgs.colorDistance = 5 /\ cArgs.textureDistance = 2 /\ cArgs.deepDistance = 1)
                 => B32Near(cRet, Hundredths(29), StepAtScenario)

\* the weighted sum of the sub-distances (0.5, 0.2, 0.1) was computed and is
\* the float nearest to 0.29
C19_Witness ==
    /\ Returned("WeightedSum")
    /\ cArgs.colorDistance = 5
    /\ cArgs.textureDistance = 2
    /\ cArgs.deepDistance = 1
    /\ cRet = Hundredths(29)

\* the matchers that score by computeCosineDistance
CosineProgs == {"findmatcheswithdeepnetwork", "custom_design"}

\* a vector of zero norm
ZeroNorm(v) == v # <<>> /\ \A k \in 1..Len(v) : v[k] = F(0)

\* the deep-network vector of the target of the current query
TargetVector == IF prog = "custom_design" THEN target[3] ELSE target

\* C17: in findmatcheswithdeepnetwork and custom_design an all-zero vector
\* never reaches the division of computeCosineDistance: a store record of
\* zero norm is skipped and gets no score, and a target of zero norm makes
\* the query fail before any record is scored.
C17_ZeroNormNeverScored ==
    (prog \in CosineProgs /\ distances # <<>>) =>
        /\ ~ZeroNorm(TargetVector)
        /\ \A n \in 1..Len(distances) :
              \A i \in 1..Len(features) :
                  features[i][1] = distances[n][2] => ~ZeroNorm(features[i][2])

\* line i of the store holds the vector of the target
IdenticalToTarget(i) == ~ParseThrows(storeFile[i]) /\ ParseVector(storeFile[i]) = target

\* C18: in find_matches a record whose vector is identical to the target's
\* has score 0 and is ranked first, preceded only by other records of score 0
\* with a lexically smaller imageId; every SSD score is >= 0.
C18_IdenticalRecordFirst ==
    (prog = "find_matches" /\ pc = "report") =>
        /\ \A n \in 1..Len(distances) :
              ~IsNaN(distances[n][1]) /\ ~FLess(distances[n][1], F(0))
        /\ \A i \in 1..Len(storeFile) :
              IdenticalToTarget(i) =>
                  \E n \in 1..Len(distances) :
                      /\ distances[n] = <<F(0), storeFile[i].id>>
                      /\ \A m \in 1..(n - 1) :
                            /\ distances[m][1] = F(0)
                            /\ StrLess(distances[m][2], distances[n][2])

\* a sorted list of find_matches in which a record identical to the target
\* comes second, after another record of score 0 and smaller imageId
C18_Witness ==
    /\ prog = "find_matches" /\ pc = "report"
    /\ Len(distances) = 2
    /\ IdenticalToTarget(1) /\ IdenticalToTarget(2)
    /\ distances[2][1] = F(0)
    /\ StrLess(distances[1][2], distances[2][2])

\* x and y agree to the 6 significant digits a float is good for:
\* |x - y| <= 5 * 10^-6 * |y|
SameFloat(x, y) ==
    LET diff == FSub(x, y)
        gap == FMul(F(200000), IF FLess(diff, F(0)) THEN FNeg(diff) ELSE diff)
        size == IF FLess(y, F(0)) THEN FNeg(y) ELSE y
    IN  ~FLess(size, gap)

\* C20: the records written by an extraction pass, read back by a matcher's
\* reader, are as many, in the same order, each with the same imageId and a
\* vector of the same length and of the same values within float precision.
C20_RoundTrip ==
    Returned("writeThenRead") =>
        /\ ~cRet.threw
        /\ Len(cRet.features) = Len(cArgs.records)
        /\ \A n \in 1..Len(cRet.features) :
              /\ cRet.features[n][1] = cArgs.records[n][1]
              /\ Len(cRet.features[n][2]) = Len(cArgs.records[n][2])
              /\ \A k \in 1..Len(cRet.features[n][2]) :
                    SameFloat(cRet.features[n][2][k], cArgs.records[n][2][k])

\* the directory entries whose file the extraction program hands to imread
\* and imread cannot decode
UnreadableEntries ==
    { i \in 1..Len(xEntries) :
        /\ xProg = "compute_features" \/ xEntries[i].regular
        /\ IsEmpty(xEntries[i].image) }

\* the directory entries for which the store holds no record
EntriesWithoutRecord ==
    { i \in 1..Len(xEntries) :
        \A n \in 1..Len(xFile) : xFile[n].id # EntryPath(xDir, xEntries[i].name) }

\* the per-item errors logged
ImageErrors == { n \in 1..Len(xLog) : xLog[n] = "Could not open image" }

\* C21: a batch extraction continues past every unreadable or undecodable
\* image, logs each one, writes a record for every other image, and at the
\* end reports the count of skipped items: the log of a finished pass holds
\* one error per unreadable image and, after them, the report of the count.
C21_SkippedCountReported ==
    (xPc = "exit" /\ xExit = 0 /\ xOutOk) =>
        /\ Cardinality(ImageErrors) = Cardinality(UnreadableEntries)
        /\ \A i \in 1..Len(xEntries) :
              i \in EntriesWithoutRecord =>
                  i \in UnreadableEntries \/ ~xEntries[i].regular
        /\ Len(xLog) = Cardinality(ImageErrors) + 1


\* x <= y as the floats compare: false when either is a NaN
FLeq(x, y) == ~IsNaN(x) /\ ~IsNaN(y) /\ ~FLess(y, x)

\* entry a is at least as similar to the target as entry b: its distance is
\* no larger, or for the intersection matchers its similarity no smaller
AtLeastAsSimilar(program, a, b) ==
    IF Descending(program) THEN FLeq(b[1], a[1]) ELSE FLeq(a[1], b[1])

\* the scored records that the list does not report
Unreported(list) ==
    { distances[n] : n \in { m \in 1..Len(distances) :
                               \A i \in 1..Len(list) : list[i] # distances[m] } }

\* C22: the distance matchers sort ascending and the intersection matchers
\* descending, so that in every reported best-match list each entry is at
\* least as similar to the target as every entry after it and as every
\* scored record the list leaves out.
C22_MostSimilarFirst ==
    (shown # <<>> /\ shown[Len(shown)].part = "top" /\ pc \in {"least", "exit"}) =>
        LET list == shown[Len(shown)].list
        IN  /\ \A i, j \in 1..Len(list) :
                   i < j => AtLeastAsSimilar(prog, list[i], list[j])
            /\ \A i \in 1..Len(list) :
                   \A u \in Unreported(list) : AtLeastAsSimilar(prog, list[i], u)

\* the same for the runs in which no score is a NaN
C22_FiniteScoresMostSimilarFirst ==
    (\A n \in 1..Len(distances) : ~IsNaN(distances[n][1])) => C22_MostSimilarFirst


\* int bins = 16 of compute_histo_features and int bins = 8 of the two
\* colour extractors
IndexHistoBins == 16

IndexColourBins == 8

\* the number of values an extraction program writes after the file name
ValuesPerLine(program, histoBins, colourBins) ==
    IF program = "compute_features" THEN (2 * halfSize + 1) * (2 * halfSize + 1) * 3
    ELSE IF program = "compute_histo_features" THEN histoBins * histoBins
    ELSE IF program = "compute_featuresmulti" THEN 2 * colourBins * colourBins * colourBins
    ELSE colourBins * colourBins * colourBins + colourBins

\* the directory entries the loop hands to imread and imread decodes, in
\* directory order
ProcessedEntries ==
    SelectSeq(xEntries,
              LAMBDA e : (xProg = "compute_features" \/ e.regular) /\ ~IsEmpty(e.image))

C24_LengthsCompared ==
    Returned("computeSSD") =>
        /\ cRet.outside = {}
        /\ Len(cArgs.vec1) # Len(cArgs.vec2) => ~cRet.scored


\* the records the scoring loop runs over: the lines of the store, or the
\* features read from it
ScoredRecords == IF prog \in StreamProgs THEN storeFile ELSE features

\* C25: in every matcher run the list of (score, imageId) is sorted only
\* once the scoring loop has passed every store record, and nothing is
\* reported before the sort is done; the list belongs to one query: it is
\* empty when a query starts, and the second target of custom_design never
\* sees a score of the first.
C25_ScoreSortReport ==
    [][ /\ pc = "sort" =>
               /\ lineNo = Len(ScoredRecords)
               /\ distances' \in SortOutcomes(prog, distances)
        /\ (distances' # distances /\ distances' # <<>>) =>
               \/ pc = "sort"
               \/ /\ pc \in {"rows", "score"}
                  /\ lineNo < Len(ScoredRecords)
                  /\ SubSeq(distances', 1, Len(distances)) = distances
        /\ pc' = "report" => pc = "sort"
        /\ pc' = "least" => pc = "report"
        /\ shown' # shown =>
               /\ pc \in {"report", "least"}
               /\ distances' = distances
               /\ shown'[Len(shown')].q = query
        /\ pc \in {"start", "read", "qstart"} => distances = <<>>
        /\ pc' = "qstart" => distances' = <<>>
        /\ Len(distances') <= Len(storeFile)
      ]_vars

\* the second query of custom_design reports from a list of its own two
\* scores after the first query reported its matches
C25_Witness ==
    /\ prog = "custom_design"
    /\ query = 2
    /\ pc = "qend"
    /\ Len(distances) = 2
    /\ Len(ShownOf(1, "top")) = 1
    /\ ShownOf(1, "top")[1].list # <<>>
    /\ Len(ShownOf(2, "top")) = 1


\* the target's vector is the one the extraction program computes
C26_SameExtractor ==
    Returned("queryOwnRecord") => cRet.target = cRet.computed

\* C26: each matcher computes the target's representation as its
\* index-building program does, so for every image the target's vector
\* equals, element for element, the vector written for that image, and the
\* image queried as target scores distance 0 (intersection 1 in
\* find_matchesmulti and find_matchescolortexture) against its own record.
C26_OwnRecordScoresBest ==
    Returned("queryOwnRecord") =>
        /\ cRet.target = cRet.record
        /\ cRet.score = IF Descending(cArgs.program) THEN F(1) ELSE F(0)


\* the records of the looked-up features named like the target
NamedLikeTarget ==
    { n \in 1..Len(cArgs.features) : cArgs.features[n][1] = cArgs.targetImageBaseName }

\* C27: the target lookup reports NotFound if and only if no store record
\* has an imageId equal to the target's basename; when there is one,
\* whatever its vector (a vector with no elements included), the query goes
\* on with the vector of the first such record.
C27_NotFoundIffNoRecord ==
    Returned("lookupTarget") =>
        /\ cRet.notFound <=> NamedLikeTarget = {}
        /\ \A n \in NamedLikeTarget :
               (\A k \in NamedLikeTarget : n <= k) => cRet.vector = cArgs.features[n][2]

\* the same for the stores in which every record named like the target has
\* a value
C27_NonEmptyVectors ==
    (Returned("lookupTarget") /\ \A n \in NamedLikeTarget : cArgs.features[n][2] # <<>>)
        => C27_NotFoundIffNoRecord


\* C28: compute_features run with a feature type other than "baseline"
\* exits with a non-zero code whatever the directory holds (nothing, or no
\* decodable image, included) and neither creates nor truncates the output
\* file.
C28_UnknownTypeFailsUntouched ==
    (xProg = "compute_features" /\ xType # "baseline" /\ xPc = "exit") =>
        /\ xExit # 0
        /\ ~xTouched

\* what does hold: the run stops with code 1 at the first decodable image
\* and writes no line
C28_UnknownTypeWritesNoLine ==
    (xProg = "compute_features" /\ xType # "baseline" /\ xPc = "exit") =>
        /\ xFile = <<>>
        /\ (xExit # 0) <=> (~xOutOk \/ \E n \in 1..Len(xEntries) : ~IsEmpty(xEntries[n].image))


\* C29: for a store whose imageIds are unique, and every target and K, the
\* ranked output is the same for every permutation of the store's rows: it
\* depends on the set of records only.
C29_RowOrderIrrelevant ==
    Returned("rankStore") =>
        \A rows \in Rearrangements(cArgs.features) :
            rankStore(rows, cArgs.targetImageBaseName, cArgs.numMatches) = {cRet}

\* the same for the stores and targets that give every record a score that
\* is a number
C29_FiniteScoresRowOrderIrrelevant ==
    (/\ Returned("rankStore")
     /\ ~ZeroNorm(LookupVector(cArgs.features, cArgs.targetImageBaseName))
     /\ \A n \in 1..Len(cArgs.features) : ~ZeroNorm(cArgs.features[n][2]))
        => C29_RowOrderIrrelevant


\* a loop that made the iterations at the given indices over a list of n
\* entries ended after at most n iterations and read the list inside 0..n-1
WithinList(indices, n) ==
    /\ Len(indices) <= n
    /\ \A j \in 1..Len(indices) : 0 <= indices[j] /\ indices[j] <= n - 1

\* C30: for every integer K (negative, zero, below, equal to or above the
\* number n of scored records) and every n from 0, the top-K loop and the
\* least-similar loop of findTopMatches end after at most n iterations and
\* never index the list of distances outside 0..n-1.
C30_LoopsEndInsideList ==
    Returned("reportLoops") =>
        /\ WithinList(cRet.top, cArgs.size)
        /\ WithinList(cRet.least, cArgs.size)
        /\ cRet.top = [j \in 1..Len(cRet.top) |-> j - 1]
        /\ cRet.least = [j \in 1..Len(cRet.least) |-> cArgs.size - j]

\* the loops have run with K equal to the number of scored records: the
\* unsigned test of the least-similar loop is true for every i, and the loop
\* stops on i >= 0 after reading every entry once
C30_Witness ==
    /\ Returned("reportLoops")
    /\ cArgs.size = MaxScored
    /\ cArgs.numMatches = MaxScored
    /\ Len(cRet.least) = MaxScored
    /\ Len(cRet.top) = MaxScored

====
